---- MODULE Spec2Model ----
(***************************************************************************)
(* Verification model of three cookbook notebooks:                         *)
(*   examples/chatgpt/gpt_actions_library/gpt_action_sql_database.ipynb    *)
(*   examples/multimodal/image_understanding_with_rag.ipynb                *)
(*   examples/vector_databases/redis/redisjson/redisjson.ipynb             *)
(* Texts are sequences of one-character strings, byte strings are          *)
(* sequences of integers 0..255, a Python dict is a sequence of key/value  *)
(* pairs in insertion order.                                               *)
(***************************************************************************)
EXTENDS Integers, Sequences, FiniteSets, TLC

\* ------------------------------------------------------------------ bounds
MaxRecords == 2
MaxBytes == 3
MaxRows == 2
MaxDocs == 4

\* evaluation runs on the service after which the cell that creates runs is
\* not run again
MaxRuns == 1

\* evaluations on the service after which the cell that creates one is not
\* run again
MaxEvals == 2

\* files in the vector stores after which upload_files_to_vector_store is
\* not called again
MaxFiles == 2

VARIABLES
    \* JSON-to-CSV cell
    csvPc,      \* position in the cell
    data,       \* result of json.loads: sequence of records
    csvFile,    \* content of output.csv
    rowIdx,     \* position of the "for row in data" loop
    csvPrev,    \* output.csv as the run before this one left it, once the
                \* cell has been run again
    \* base64 encoding and decoding of a binary artifact
    b64Pc,      \* "start", "encoded", "decoded"
    b64Site,    \* which code produced the encoded text
    artifact,   \* bytes of the file (output.csv, an image)
    encoded,    \* base64 text
    decoded,    \* result of b64decode
    \* cells of the two notebooks that call external services
    cell,       \* the cell (or function) being executed
    pc,         \* position in it; "error" once an exception has escaped
    err,        \* the exception that halted the cell
    inflight,   \* external requests sent and not yet answered
    calls,      \* external requests issued by the current execution
    failedOp,   \* the last external call of this execution that failed
    text,       \* get_vector: the argument
    embedInput, \* get_vector: the text sent to the embedding model
    gvN,        \* the document the cell of get_vector is making: 1, 2, 3
    indexExists,    \* Redis: index 'idx' exists
    df,         \* upload_files_to_vector_store: rows of the DataFrame
    hasMonth,   \* the DataFrame has a 'month' column
    k,          \* position of the running loop over df.iterrows()
    file_ids,   \* upload_files_to_vector_store: file_ids
    vector_store_id,    \* the store the running call or search cell names:
                \* 1 the store of text, 2 the store of text and image
    upCall,     \* the call of upload_files_to_vector_store that runs: the
                \* first or the second of the cell, 0 when called on its own
    store,      \* the files of the two vector stores (text, text and image)
    vs,         \* the two vector stores (text, text and image): "unbound"
                \* while the name of its id is, "created", "deleted"
    kernel_df,  \* the global df of the kernel, <<>> while unbound
    eval_id,    \* the global eval_id: 0 while unbound
    response,   \* display_retrieved_images: the response inspected
    inspectFailed,  \* the inspection of the response raised
    retrieved_files,    \* filenames still to visit
    displayed_images,   \* filename -> image path, as a set of pairs
    displayed,  \* the global of that name: the dict returned by the last
                \* call, with the response and the dict that call has read
    IMAGE_ID_MAPPING,   \* the global dict of that name and whether it (and
                \* with it display_retrieved_images) is bound
    run_ids,    \* <<text_only_run_id, text_image_run_id>>, 0 when unset
    runStatus,  \* evaluation service: status of each run
    items,      \* what output_items.list returned for each run
    \* image generation cell and its on-disk cache
    imgPc,      \* position in the cell
    hashSeed,   \* seed of str hashing of the running Python process
    prompt,     \* the prompt of the cell
    cache_path, \* f".local_cache/{hash(prompt)}.png"
    cacheFiles, \* files of .local_cache: name and the prompt of the image
    \* the middleware endpoint databaseQuery and its caller
    apiPc,      \* position in the handling of one request
    request,    \* X-Api-Key header and query of the request
    dbResult,   \* records returned by the database
    mwCsv,      \* CSV text made from the records
    mwContent,  \* base64 text of the CSV file
    mwResponse, \* status and body returned by the middleware
    database,   \* rows of the table the queries are about
    readOnly,   \* the middleware has read-only permissions on the database
    mwSteps,    \* the workflow steps done for the request, in order
    \* the search cells of the Redis notebook
    docKey,     \* the key number of the document the cell stores next
    redisDocs,  \* the JSON documents stored in Redis, by key number
    q,          \* the Query of the cell
    query_vec,  \* the vector of the query text
    results,    \* results.docs
    docVecs,    \* doc_1, doc_2, doc_3 of the kernel: <<>> while unbound,
                \* <<v>> once bound with the vector v
    np,         \* numpy is imported under the name np in the kernel
    gvDefined,  \* the def of get_vector has run in the kernel
    outcome     \* what the caller of the endpoint gets

csvVars == <<csvPc, data, csvFile, rowIdx, csvPrev>>
b64Vars == <<b64Pc, b64Site, artifact, encoded, decoded>>
ctlVars == <<cell, pc, err, inflight, calls, failedOp>>
gvVars == <<text, embedInput, gvN>>
upVars == <<df, hasMonth, k, file_ids, vector_store_id, upCall, store>>
dispVars ==
    <<response, inspectFailed, retrieved_files, displayed_images, displayed,
      IMAGE_ID_MAPPING>>
evalVars == <<run_ids, runStatus, items>>
kernVars == <<vs, kernel_df, eval_id>>
nbVars ==
    <<ctlVars, gvVars, indexExists, upVars, dispVars, evalVars, kernVars>>
imgVars == <<imgPc, hashSeed, prompt, cache_path, cacheFiles>>
apiVars ==
    <<apiPc, request, dbResult, mwCsv, mwContent, mwResponse, outcome,
      database, readOnly, mwSteps>>

srVars ==
    <<docKey, redisDocs, q, query_vec, results, docVecs, np, gvDefined>>

vars == <<csvVars, b64Vars, nbVars, imgVars, apiVars, srVars>>

nonCsvVars == <<b64Vars, nbVars, imgVars, apiVars, srVars>>
nonB64Vars == <<csvVars, nbVars, imgVars, apiVars, srVars>>
nonNbVars == <<csvVars, b64Vars, imgVars, apiVars, srVars>>
nonApiVars == <<csvVars, b64Vars, nbVars, imgVars, srVars>>

\* ------------------------------------------------------- Python values
\* the values json.loads gives for JSON numbers, strings, null and
\* true/false; a float is held in hundredths (n = 438040 is 4380.40)
IntVal(n) == [t |-> "int", n |-> n, s |-> <<>>]
FloatVal(n) == [t |-> "float", n |-> n, s |-> <<>>]
BoolVal(b) == [t |-> "bool", n |-> IF b THEN 1 ELSE 0, s |-> <<>>]
NoneVal == [t |-> "none", n |-> 0, s |-> <<>>]
StrVal(s) == [t |-> "str", n |-> 0, s |-> s]

DigitChar == <<"0", "1", "2", "3", "4", "5", "6", "7", "8", "9">>

\* str(n) of an int
RECURSIVE Digits(_)
Digits(n) ==
    IF n < 0 THEN <<"-">> \o Digits(0 - n)
    ELSE IF n < 10 THEN <<DigitChar[n + 1]>>
    ELSE Digits(n \div 10) \o <<DigitChar[(n % 10) + 1]>>

\* str(x) of a float of n hundredths, below 10^16 in size: the shortest
\* digits that give the float back, at least one after the point
FloatStr(n) ==
    LET a == IF n < 0 THEN 0 - n ELSE n
        frac == a % 100
    IN  (IF n < 0 THEN <<"-">> ELSE <<>>)
        \o Digits(a \div 100) \o <<".">>
        \o (IF frac % 10 = 0 THEN <<DigitChar[(frac \div 10) + 1]>>
            ELSE <<DigitChar[(frac \div 10) + 1], DigitChar[(frac % 10) + 1]>>)

\* the text csv.writer writes for a field: a string as it is, None as the
\* empty text, any other value through str()
Str(v) ==
    IF v.t = "int" THEN Digits(v.n)
    ELSE IF v.t = "float" THEN FloatStr(v.n)
    ELSE IF v.t = "bool" THEN
        (IF v.n = 1 THEN <<"T", "r", "u", "e">>
         ELSE <<"F", "a", "l", "s", "e">>)
    ELSE IF v.t = "none" THEN <<>>
    ELSE v.s

\* dict.keys() and dict.values(): insertion order
keys(rec) == [i \in 1..Len(rec) |-> rec[i].k]
values(rec) == [i \in 1..Len(rec) |-> rec[i].v]

\* ------------------------------------------------------- csv.writer
NeedsQuote(s) == \E i \in 1..Len(s) : s[i] \in {",", "\"", "\r", "\n"}

RECURSIVE DoubleQuotes(_)
DoubleQuotes(s) ==
    IF s = <<>> THEN <<>>
    ELSE (IF Head(s) = "\"" THEN <<"\"", "\"">> ELSE <<Head(s)>>)
         \o DoubleQuotes(Tail(s))

QuoteField(s) ==
    IF NeedsQuote(s) THEN <<"\"">> \o DoubleQuotes(s) \o <<"\"">> ELSE s

RECURSIVE JoinFields(_)
JoinFields(fs) ==
    IF fs = <<>> THEN <<>>
    ELSE IF Len(fs) = 1 THEN QuoteField(fs[1])
    ELSE QuoteField(fs[1]) \o <<",">> \o JoinFields(Tail(fs))

\* csvwriter.writerow(fields): one line, terminated by \r\n; a row made of
\* one empty field is written as "" so that it is not a blank line
writerow(fs) ==
    (IF Len(fs) = 1 /\ fs[1] = <<>> THEN <<"\"", "\"">> ELSE JoinFields(fs))
    \o <<"\r", "\n">>

\* ------------------------------------------------------- csv.reader
\* state st: "start" (start of record), "sof" (start of field), "inf" (in
\* field), "inq" (in quoted field), "qinq" (quote seen in quoted field),
\* "cr" (carriage return seen, record already closed)
RECURSIVE ReadFrom(_, _, _, _, _)
ReadFrom(s, st, rows, row, field) ==
    IF s = <<>> THEN
        IF st \in {"start", "cr"} THEN rows
        ELSE Append(rows, Append(row, field))
    ELSE
        LET c == Head(s)
            rest == Tail(s)
        IN
        IF st = "cr" THEN
            IF c = "\n" THEN ReadFrom(rest, "start", rows, <<>>, <<>>)
            ELSE ReadFrom(s, "start", rows, <<>>, <<>>)
        ELSE IF st = "inq" THEN
            IF c = "\"" THEN ReadFrom(rest, "qinq", rows, row, field)
            ELSE ReadFrom(rest, "inq", rows, row, Append(field, c))
        ELSE IF c \in {"\r", "\n"} THEN
            LET closed == IF st = "start" THEN <<>> ELSE Append(row, field)
            IN ReadFrom(rest, IF c = "\r" THEN "cr" ELSE "start",
                        Append(rows, closed), <<>>, <<>>)
        ELSE IF c = "," THEN
            ReadFrom(rest, "sof", rows, Append(row, field), <<>>)
        ELSE IF c = "\"" THEN
            IF st = "qinq" THEN
                ReadFrom(rest, "inq", rows, row, Append(field, c))
            ELSE IF st \in {"start", "sof"} THEN
                ReadFrom(rest, "inq", rows, row, field)
            ELSE ReadFrom(rest, "inf", rows, row, Append(field, c))
        ELSE ReadFrom(rest, "inf", rows, row, Append(field, c))

\* list(csv.reader(f)): the rows of the table, each a sequence of texts
ReadCsv(s) == ReadFrom(s, "start", <<>>, <<>>, <<>>)

\* ------------------------------------------------------- characters
\* the ASCII characters of codes 32 (space) to 95 (_) and of codes 97 (a) to
\* 126 (~)
AsciiLow == <<
    " ", "!", "\"", "#", "$", "%", "&", "'", "(", ")", "*", "+",
    ",", "-", ".", "/", "0", "1", "2", "3", "4", "5", "6", "7",
    "8", "9", ":", ";", "<", "=", ">", "?", "@", "A", "B", "C",
    "D", "E", "F", "G", "H", "I", "J", "K", "L", "M", "N", "O",
    "P", "Q", "R", "S", "T", "U", "V", "W", "X", "Y", "Z", "[",
    "\\", "]", "^", "_" >>

AsciiHigh == <<
    "a", "b", "c", "d", "e", "f", "g", "h", "i", "j", "k", "l",
    "m", "n", "o", "p", "q", "r", "s", "t", "u", "v", "w", "x",
    "y", "z", "{", "|", "}", "~" >>

\* chr(code) and ord(char) on the ASCII range used by the notebooks
Chr(code) ==
    IF code = 10 THEN "\n" ELSE IF code = 13 THEN "\r"
    ELSE IF code <= 95 THEN AsciiLow[code - 31] ELSE AsciiHigh[code - 96]

Ord(ch) ==
    IF ch = "\n" THEN 10 ELSE IF ch = "\r" THEN 13
    ELSE IF \E i \in 1..Len(AsciiLow) : AsciiLow[i] = ch
    THEN 31 + (CHOOSE i \in 1..Len(AsciiLow) : AsciiLow[i] = ch)
    ELSE 96 + (CHOOSE i \in 1..Len(AsciiHigh) : AsciiHigh[i] = ch)

\* bytes.decode('utf-8') and str.encode('utf-8') on ASCII content: one byte
\* per character
Utf8Decode(bs) == [i \in 1..Len(bs) |-> Chr(bs[i])]
Utf8Encode(txt) == [i \in 1..Len(txt) |-> Ord(txt[i])]

\* ------------------------------------------------------- base64
\* ASCII code of the base64 digit of a 6-bit value
B64Digit(v) ==
    IF v < 26 THEN 65 + v
    ELSE IF v < 52 THEN 97 + (v - 26)
    ELSE IF v < 62 THEN 48 + (v - 52)
    ELSE IF v = 62 THEN 43 ELSE 47

B64Pad == 61

\* 6-bit value of an ASCII code, 64 for a code outside the alphabet
B64Value(code) ==
    IF code >= 65 /\ code <= 90 THEN code - 65
    ELSE IF code >= 97 /\ code <= 122 THEN code - 97 + 26
    ELSE IF code >= 48 /\ code <= 57 THEN code - 48 + 52
    ELSE IF code = 43 THEN 62
    ELSE IF code = 47 THEN 63 ELSE 64

\* variant of b64encode: the final group is not padded with '='
RECURSIVE b64encode_NoPadding(_)
b64encode_NoPadding(bs) ==
    IF bs = <<>> THEN <<>>
    ELSE IF Len(bs) = 1 THEN
        <<B64Digit(bs[1] \div 4), B64Digit((bs[1] % 4) * 16)>>
    ELSE IF Len(bs) = 2 THEN
        <<B64Digit(bs[1] \div 4),
          B64Digit((bs[1] % 4) * 16 + (bs[2] \div 16)),
          B64Digit((bs[2] % 16) * 4)>>
    ELSE
        <<B64Digit(bs[1] \div 4),
          B64Digit((bs[1] % 4) * 16 + (bs[2] \div 16)),
          B64Digit((bs[2] % 16) * 4 + (bs[3] \div 64)),
          B64Digit(bs[3] % 64)>>
        \o b64encode_NoPadding(SubSeq(bs, 4, Len(bs)))

\* base64.b64encode(bytes): bytes of the base64 text, three input bytes per
\* four digits, the last group padded with '='
RECURSIVE b64encode(_)
b64encode(bs) ==
    IF bs = <<>> THEN <<>>
    ELSE IF Len(bs) = 1 THEN
        <<B64Digit(bs[1] \div 4), B64Digit((bs[1] % 4) * 16), B64Pad, B64Pad>>
    ELSE IF Len(bs) = 2 THEN
        <<B64Digit(bs[1] \div 4),
          B64Digit((bs[1] % 4) * 16 + (bs[2] \div 16)),
          B64Digit((bs[2] % 16) * 4), B64Pad>>
    ELSE
        <<B64Digit(bs[1] \div 4),
          B64Digit((bs[1] % 4) * 16 + (bs[2] \div 16)),
          B64Digit((bs[2] % 16) * 4 + (bs[3] \div 64)),
          B64Digit(bs[3] % 64)>>
        \o b64encode(SubSeq(bs, 4, Len(bs)))

\* the decoder's loop over the ASCII codes: quad is the position in the
\* current group of four digits, left the bits carried over, pads the
\* number of '=' seen in a row; codes outside the alphabet are skipped
RECURSIVE DecodeFrom(_, _, _, _, _)
DecodeFrom(cs, quad, left, pads, out) ==
    IF cs = <<>> THEN [ok |-> quad = 0, bytes |-> out]
    ELSE
        LET c == Head(cs)
            v == B64Value(c)
        IN
        IF c = B64Pad THEN
            IF quad >= 2 /\ quad + pads + 1 >= 4
            THEN [ok |-> TRUE, bytes |-> out]
            ELSE DecodeFrom(Tail(cs), quad, left,
                            IF quad >= 2 THEN pads + 1 ELSE pads, out)
        ELSE IF v >= 64 THEN DecodeFrom(Tail(cs), quad, left, pads, out)
        ELSE IF quad = 0 THEN DecodeFrom(Tail(cs), 1, v, 0, out)
        ELSE IF quad = 1 THEN
            DecodeFrom(Tail(cs), 2, v % 16, 0,
                       Append(out, (left * 4 + (v \div 16)) % 256))
        ELSE IF quad = 2 THEN
            DecodeFrom(Tail(cs), 3, v % 4, 0,
                       Append(out, (left * 16 + (v \div 4)) % 256))
        ELSE DecodeFrom(Tail(cs), 0, 0, 0, Append(out, (left * 64 + v) % 256))

\* base64.b64decode(text): ok is FALSE when binascii.Error is raised
\* (incorrect padding)
b64decode(txt) == DecodeFrom(Utf8Encode(txt), 0, 0, 0, <<>>)

\* ------------------------------------------------------- input records
KeyNames == {<<"a">>, <<"b">>}

\* values of the kinds a JSON document can hold: the notebook's own are
\* ints (12) and floats (4380.40)
Values == {IntVal(12), IntVal(-5), FloatVal(438040), BoolVal(TRUE), NoneVal,
           StrVal(<<"x">>), StrVal(<<",", "\"", "\n">>), StrVal(<<>>)}

Distinct(f) == \A i, j \in DOMAIN f : i # j => f[i] # f[j]

\* the values the records give to each field name: every kind of value is
\* present, a number of each sign, an empty text and a text csv.writer has
\* to quote
FieldValues ==
    [key \in KeyNames |->
        IF key = <<"a">>
        THEN {IntVal(12), FloatVal(438040), StrVal(<<"x">>), StrVal(<<>>)}
        ELSE {IntVal(-5), BoolVal(TRUE), NoneVal,
              StrVal(<<",", "\"", "\n">>)}]

Records ==
    UNION {{r \in [1..n -> [k : KeyNames, v : Values]] :
               /\ Distinct(keys(r))
               /\ \A i \in 1..n : r[i].v \in FieldValues[r[i].k]}
           : n \in 0..Cardinality(KeyNames)}

DataSets == UNION {[1..n -> Records] : n \in 0..MaxRecords}

\* content of output.csv left by an earlier run, or no content
OldFiles == {<<>>, <<"o", "l", "d", "\r", "\n">>}

\* ------------------------------------------------------- JSON-to-CSV cell
\* the cell has not been run a second time
NoRun == [again |-> FALSE, file |-> <<>>]

\* the cell is not run
CsvIdle ==
    /\ csvPc = "idle"
    /\ data = <<>>
    /\ csvFile = <<>>
    /\ rowIdx = 0
    /\ csvPrev = NoRun

CsvInit ==
    /\ csvPc = "load"
    /\ data = <<>>
    /\ csvFile \in OldFiles
    /\ rowIdx = 0
    /\ csvPrev = NoRun

\* data = json.loads(json_data)
LoadJson ==
    /\ csvPc = "load"
    /\ data' \in DataSets
    /\ csvPc' = "open"
    /\ UNCHANGED <<csvFile, rowIdx, csvPrev>>
    /\ UNCHANGED nonCsvVars

\* variant of OpenCsv: the file is opened in mode 'a' and keeps its content
OpenCsv_Append ==
    /\ csvPc = "open"
    /\ csvPc' = "header"
    /\ UNCHANGED <<data, csvFile, rowIdx, csvPrev>>
    /\ UNCHANGED nonCsvVars

\* with open(csv_file, 'w', newline='') as csvfile: truncates the file
OpenCsv ==
    /\ csvPc = "open"
    /\ csvFile' = <<>>
    /\ csvPc' = "header"
    /\ UNCHANGED <<data, rowIdx, csvPrev>>
    /\ UNCHANGED nonCsvVars

\* variant of WriteHeader: the header is taken from the last record
WriteHeader_LastRecord ==
    /\ csvPc = "header"
    /\ IF data = <<>>
       THEN /\ csvPc' = "error"
            /\ UNCHANGED <<csvFile, rowIdx>>
       ELSE /\ csvFile' = csvFile \o writerow(keys(data[Len(data)]))
            /\ rowIdx' = 1
            /\ csvPc' = "rows"
    /\ UNCHANGED <<data, csvPrev>>
    /\ UNCHANGED nonCsvVars

\* header = data[0].keys(); csvwriter.writerow(header)
\* data[0] raises IndexError on an empty list; the with block closes the file
WriteHeader ==
    /\ csvPc = "header"
    /\ IF data = <<>>
       THEN /\ csvPc' = "error"
            /\ UNCHANGED <<csvFile, rowIdx>>
       ELSE /\ csvFile' = csvFile \o writerow(keys(data[1]))
            /\ rowIdx' = 1
            /\ csvPc' = "rows"
    /\ UNCHANGED <<data, csvPrev>>
    /\ UNCHANGED nonCsvVars

\* variant of WriteRow: the loop walks the records from the last to the first
WriteRow_Reversed ==
    /\ csvPc = "rows"
    /\ rowIdx <= Len(data)
    /\ csvFile' = csvFile \o writerow(
           [i \in 1..Len(data[Len(data) + 1 - rowIdx]) |->
               Str(values(data[Len(data) + 1 - rowIdx])[i])])
    /\ rowIdx' = rowIdx + 1
    /\ UNCHANGED <<csvPc, data, csvPrev>>
    /\ UNCHANGED nonCsvVars

\* for row in data: csvwriter.writerow(row.values())
WriteRow ==
    /\ csvPc = "rows"
    /\ rowIdx <= Len(data)
    /\ csvFile' = csvFile \o writerow([i \in 1..Len(data[rowIdx]) |->
                                         Str(values(data[rowIdx])[i])])
    /\ rowIdx' = rowIdx + 1
    /\ UNCHANGED <<csvPc, data, csvPrev>>
    /\ UNCHANGED nonCsvVars

\* end of the loop and of the with block
CloseCsv ==
    /\ csvPc = "rows"
    /\ rowIdx > Len(data)
    /\ csvPc' = "done"
    /\ UNCHANGED <<data, csvFile, rowIdx, csvPrev>>
    /\ UNCHANGED nonCsvVars

\* the cell is run again in the same kernel: json.loads(json_data) gives
\* the records of the literal of the cell again, and output.csv is as the
\* run before left it
LoadJsonAgain ==
    /\ csvPc \in {"done", "error"}
    /\ csvPc' = "open"
    /\ rowIdx' = 0
    /\ csvPrev' = [again |-> TRUE, file |-> csvFile]
    /\ UNCHANGED <<data, csvFile>>
    /\ UNCHANGED nonCsvVars

NextCsv == LoadJson \/ OpenCsv \/ WriteHeader \/ WriteRow \/ CloseCsv


\* ------------------------------------------- base64 of a binary artifact
ByteSamples == {0, 1, 77, 128, 255}

ByteSeqs == UNION {[1..n -> ByteSamples] : n \in 0..MaxBytes}

B64Idle ==
    /\ b64Pc = "idle"
    /\ b64Site = "none"
    /\ artifact = <<>>
    /\ encoded = <<>>
    /\ decoded = [ok |-> TRUE, bytes |-> <<>>]

B64Init ==
    /\ b64Pc = "start"
    /\ b64Site = "none"
    /\ artifact \in ByteSeqs
    /\ encoded = <<>>
    /\ decoded = [ok |-> TRUE, bytes |-> <<>>]

\* encoded_string = base64.b64encode(open('output.csv', 'rb').read())
\*                        .decode('utf-8')
EncodeCsvFile ==
    /\ b64Pc = "start"
    /\ encoded' = Utf8Decode(b64encode(artifact))
    /\ b64Site' = "csv"
    /\ b64Pc' = "encoded"
    /\ UNCHANGED <<artifact, decoded>>
    /\ UNCHANGED nonB64Vars

\* encode_image(image_path): base64.b64encode(f.read()).decode("utf-8")
encode_image ==
    /\ b64Pc = "start"
    /\ encoded' = Utf8Decode(b64encode(artifact))
    /\ b64Site' = "image"
    /\ b64Pc' = "encoded"
    /\ UNCHANGED <<artifact, decoded>>
    /\ UNCHANGED nonB64Vars

\* response.data[0].b64_json: the image service returns the generated image
\* as base64 text
GeneratedImagePayload ==
    /\ b64Pc = "start"
    /\ encoded' = Utf8Decode(b64encode(artifact))
    /\ b64Site' = "generated"
    /\ b64Pc' = "encoded"
    /\ UNCHANGED <<artifact, decoded>>
    /\ UNCHANGED nonB64Vars

\* f.write(base64.b64decode(response.data[0].b64_json)); the same decoding
\* is what the receiver of the encoded CSV file applies
DecodePayload ==
    /\ b64Pc = "encoded"
    /\ decoded' = b64decode(encoded)
    /\ b64Pc' = "decoded"
    /\ UNCHANGED <<b64Site, artifact, encoded>>
    /\ UNCHANGED nonB64Vars

NextB64 ==
    EncodeCsvFile \/ encode_image \/ GeneratedImagePayload \/ DecodePayload

\* ------------------------------------------ cells calling external services
\* a global name not assigned yet: no cell made it, no cell read it
\* the global displayed is not bound
NotDisplayed ==
    [bound |-> FALSE, map |-> {}, response |-> [kind |-> "none", files |-> {}],
     mapping |-> {}]

\* IMAGE_ID_MAPPING and display_retrieved_images are not defined yet
NoMapping == [bound |-> FALSE, map |-> {}]

\* the locals of the functions are not set, no global name of the kernel
\* but df and the ids of the stores is bound, the services hold no file and
\* no run of this session
NbClean ==
    /\ err = "none"
    /\ inflight = {}
    /\ calls = <<>>
    /\ failedOp = "none"
    /\ text = StrVal(<<>>)
    /\ embedInput = <<>>
    /\ gvN = 0
    /\ df = <<>>
    /\ hasMonth = TRUE
    /\ k = 0
    /\ file_ids = <<>>
    /\ vector_store_id = 0
    /\ upCall = 0
    /\ store = << <<>>, <<>> >>
    /\ eval_id = 0
    /\ response = [kind |-> "none", files |-> {}]
    /\ inspectFailed = FALSE
    /\ displayed = NotDisplayed
    /\ retrieved_files = {}
    /\ displayed_images = {}
    /\ IMAGE_ID_MAPPING = NoMapping
    /\ run_ids = <<0, 0>>
    /\ runStatus = <<>>
    /\ items = <<"none", "none">>

\* the kernel has just started: no global name is bound at all
NbFresh ==
    /\ NbClean
    /\ vs = <<"unbound", "unbound">>
    /\ kernel_df = <<>>

\* no cell of the two notebooks is running
NbIdle ==
    /\ cell = "none"
    /\ pc = "idle"
    /\ indexExists = FALSE
    /\ NbFresh

\* the Redis server may already hold the index of an earlier session
NbInit ==
    /\ cell = "none"
    /\ pc = "idle"
    /\ indexExists \in BOOLEAN
    /\ NbFresh

\* the locals of a function are gone when another cell starts; the globals
\* of the kernel (response, displayed, IMAGE_ID_MAPPING, the run ids, the
\* output items, df, eval_id, doc_1..doc_3) and what the services hold (the
\* index, the files of the vector stores, the runs) stay as they are
ResetGv == text' = StrVal(<<>>) /\ embedInput' = <<>> /\ gvN' = 0

ResetUp ==
    /\ df' = <<>>
    /\ hasMonth' = TRUE
    /\ k' = 0
    /\ file_ids' = <<>>
    /\ vector_store_id' = 0
    /\ upCall' = 0
    /\ UNCHANGED store

ResetDisp ==
    /\ inspectFailed' = FALSE
    /\ retrieved_files' = {}
    /\ displayed_images' = {}
    /\ UNCHANGED <<response, displayed, IMAGE_ID_MAPPING>>

\* the user runs a cell once the previous one has finished or failed
Begin(c, p) ==
    /\ pc \in {"idle", "done", "error"}
    /\ cell' = c
    /\ pc' = p
    /\ err' = "none"
    /\ inflight' = {}
    /\ calls' = <<>>
    /\ failedOp' = "none"

\* the cell starts and its first statement raises e, before any request
StartRaise(c, e) ==
    /\ pc \in {"idle", "done", "error"}
    /\ cell' = c
    /\ pc' = "error"
    /\ err' = e
    /\ inflight' = {}
    /\ calls' = <<>>
    /\ failedOp' = "none"

\* the cell starts and raises NameError at once: a global name it reads is
\* not bound
Unbound(c) == StartRaise(c, "NameError")

\* a blocking call of a client library: the request is sent and the cell
\* waits at waitPc for the answer
Send(op, key, waitPc) ==
    /\ inflight' = inflight \cup {[op |-> op, key |-> key]}
    /\ calls' = Append(calls, [op |-> op, key |-> key])
    /\ pc' = waitPc
    /\ UNCHANGED <<cell, err, failedOp>>

\* the answer has arrived and the cell goes on at nextPc
Answer(op, key, nextPc) ==
    /\ inflight' = inflight \ {[op |-> op, key |-> key]}
    /\ pc' = nextPc
    /\ UNCHANGED <<cell, err, calls, failedOp>>

\* the call raised (bad credential, malformed request, network failure) and
\* nothing catches the exception: the cell halts
Failure(op, key) ==
    /\ inflight' = inflight \ {[op |-> op, key |-> key]}
    /\ failedOp' = op
    /\ err' = "ServiceError"
    /\ pc' = "error"
    /\ UNCHANGED <<cell, calls>>

\* a local statement raised
Raise(e) ==
    /\ err' = e
    /\ pc' = "error"
    /\ UNCHANGED <<cell, inflight, calls, failedOp>>

Goto(p) ==
    /\ pc' = p
    /\ UNCHANGED <<cell, err, inflight, calls, failedOp>>

\* ------------------------------------- get_vector and the cell of doc_1..3
\* text.replace("\n", " ")
Replace(s) == [i \in 1..Len(s) |-> IF s[i] = "\n" THEN " " ELSE s[i]]

\* embedding vectors, on a line
Vectors == {0, 1}

\* the documents the notebook makes and stores: doc_1, doc_2, doc_3
NumDocs == 3

\* text_1, text_2, text_3: each of several lines
GvTexts ==
    <<StrVal(<<"j", "\n", "r">>), StrVal(<<"d", "\n", "r">>),
      StrVal(<<"g", "\n", "t">>)>>

\* what the search cells and the cells of the other sections leave alone
srRest == <<docKey, redisDocs, q, query_vec, results, np, gvDefined>>

\* arguments get_vector may be called with
GvInputs == {StrVal(<<"a", "\n", "b">>), StrVal(<<"a">>), IntVal(12)}

\* def get_vector(text, model="text-embedding-3-small"): the function is
\* called with the argument t; NameError while the def has not run in the
\* kernel
get_vector(t) ==
    /\ IF gvDefined
       THEN /\ Begin("get_vector", "gv_replace")
            /\ gvN' = 0
            /\ text' = t
            /\ embedInput' = <<>>
       ELSE Unbound("get_vector") /\ ResetGv
    /\ ResetUp /\ ResetDisp
    /\ UNCHANGED evalVars
    /\ UNCHANGED indexExists
    /\ UNCHANGED kernVars
    /\ UNCHANGED nonNbVars

\* the cell defines get_vector and the texts and comes to
\* doc_1 = {"content": text_1, "vector": get_vector(text_1)}
StartGetVector ==
    /\ Begin("get_vector", "gv_replace")
    /\ gvDefined' = TRUE
    /\ gvN' = 1
    /\ text' = GvTexts[1]
    /\ embedInput' = <<>>
    /\ ResetUp /\ ResetDisp
    /\ UNCHANGED evalVars
    /\ UNCHANGED indexExists
    /\ UNCHANGED kernVars
    /\ UNCHANGED <<docKey, redisDocs, q, query_vec, results, docVecs, np>>
    /\ UNCHANGED <<csvVars, b64Vars, imgVars, apiVars>>

\* text = text.replace("\n", " "): AttributeError when text is not a str
GvReplace ==
    /\ pc = "gv_replace"
    /\ IF text.t # "str"
       THEN Raise("AttributeError") /\ UNCHANGED embedInput
       ELSE Goto("gv_embed") /\ embedInput' = Replace(text.s)
    /\ UNCHANGED <<text, gvN, indexExists, upVars, dispVars, evalVars>>
    /\ UNCHANGED kernVars
    /\ UNCHANGED nonNbVars

\* openai.Embedding.create(input = [text], model = model)
GvEmbedSend ==
    /\ pc = "gv_embed"
    /\ Send("embedding", gvN, "gv_embed_wait")
    /\ UNCHANGED <<gvVars, indexExists, upVars, dispVars, evalVars>>
    /\ UNCHANGED kernVars
    /\ UNCHANGED nonNbVars

\* ...['data'][0]['embedding'], the vector v, is returned: to the caller of
\* the function, or, in the cell, doc_n is bound and the next document is
\* made; or the call raises and doc_n stays as it was
GvEmbedReturn(v) ==
    /\ pc = "gv_embed_wait"
    /\ \/ /\ gvN = 0
          /\ Answer("embedding", gvN, "done")
          /\ UNCHANGED <<gvVars, docVecs>>
       \/ /\ gvN # 0
          /\ docVecs' = [docVecs EXCEPT ![gvN] = <<v>>]
          /\ IF gvN < NumDocs
             THEN /\ Answer("embedding", gvN, "gv_replace")
                  /\ gvN' = gvN + 1
                  /\ text' = GvTexts[gvN + 1]
                  /\ embedInput' = <<>>
             ELSE /\ Answer("embedding", gvN, "done")
                  /\ UNCHANGED gvVars
       \/ /\ Failure("embedding", gvN)
          /\ UNCHANGED <<gvVars, docVecs>>
    /\ UNCHANGED <<indexExists, upVars, dispVars, evalVars>>
    /\ UNCHANGED kernVars
    /\ UNCHANGED <<csvVars, b64Vars, imgVars, apiVars, srRest>>

\* ------------------------------------------------------- index creation cell
\* schema = [VectorField(..., {"DIM": len(doc_1['vector']), ...}), ...]:
\* NameError while doc_1 is not bound, before any request
StartIndexCell ==
    /\ IF docVecs[1] = <<>> THEN Unbound("index")
       ELSE Begin("index", "ix_drop")
    /\ ResetGv /\ ResetUp /\ ResetDisp
    /\ UNCHANGED evalVars
    /\ UNCHANGED indexExists
    /\ UNCHANGED kernVars
    /\ UNCHANGED nonNbVars

\* try: client.ft('idx').dropindex()
DropIndexSend ==
    /\ pc = "ix_drop"
    /\ Send("dropindex", 0, "ix_drop_wait")
    /\ UNCHANGED <<gvVars, indexExists, upVars, dispVars, evalVars>>
    /\ UNCHANGED kernVars
    /\ UNCHANGED nonNbVars

\* variant of DropIndexReturn: the exception of the drop is not caught
DropIndexReturn_Raises ==
    /\ pc = "ix_drop_wait"
    /\ \/ /\ indexExists
          /\ Answer("dropindex", 0, "ix_create")
          /\ indexExists' = FALSE
       \/ /\ Failure("dropindex", 0)
          /\ UNCHANGED indexExists
    /\ UNCHANGED <<gvVars, upVars, dispVars, evalVars>>
    /\ UNCHANGED kernVars
    /\ UNCHANGED nonNbVars

\* the index is dropped, or the call raises (unknown index name, connection
\* failure); except: pass swallows the exception and the cell goes on
DropIndexReturn ==
    /\ pc = "ix_drop_wait"
    /\ \/ /\ indexExists
          /\ Answer("dropindex", 0, "ix_create")
          /\ indexExists' = FALSE
       \/ /\ inflight' = inflight \ {[op |-> "dropindex", key |-> 0]}
          /\ failedOp' = "dropindex"
          /\ pc' = "ix_create"
          /\ UNCHANGED <<cell, err, calls, indexExists>>
    /\ UNCHANGED <<gvVars, upVars, dispVars, evalVars>>
    /\ UNCHANGED kernVars
    /\ UNCHANGED nonNbVars

\* client.ft('idx').create_index(schema, definition=idx_def)
CreateIndexSend ==
    /\ pc = "ix_create"
    /\ Send("create_index", 0, "ix_create_wait")
    /\ UNCHANGED <<gvVars, indexExists, upVars, dispVars, evalVars>>
    /\ UNCHANGED kernVars
    /\ UNCHANGED nonNbVars

\* b'OK', or the call raises (index already exists, connection failure)
CreateIndexReturn ==
    /\ pc = "ix_create_wait"
    /\ \/ /\ ~indexExists
          /\ Answer("create_index", 0, "done")
          /\ indexExists' = TRUE
       \/ /\ Failure("create_index", 0)
          /\ UNCHANGED indexExists
    /\ UNCHANGED <<gvVars, upVars, dispVars, evalVars>>
    /\ UNCHANGED kernVars
    /\ UNCHANGED nonNbVars

\* ------------------------------ cells that create and delete the stores
\* the positions of the two requests of each cell: before the request,
\* waiting for its answer, after it
VsPc ==
    [create |-> <<"vc_create1", "vc_create2">>,
     createWait |-> <<"vc_create1_wait", "vc_create2_wait">>,
     createNext |-> <<"vc_create2", "done">>,
     delete |-> <<"vd_delete1", "vd_delete2">>,
     deleteWait |-> <<"vd_delete1_wait", "vd_delete2_wait">>,
     deleteNext |-> <<"vd_delete2", "done">>]

StartCreateStores ==
    /\ Begin("create_stores", "vc_create1")
    /\ ResetGv /\ ResetUp /\ ResetDisp
    /\ UNCHANGED <<indexExists, evalVars, kernVars>>
    /\ UNCHANGED nonNbVars

\* text_vector_store = client.vector_stores.create(name=..., metadata=...),
\* then the same for text_image_vector_store
CreateStoreSend(t) ==
    /\ pc = VsPc.create[t]
    /\ Send("vector_stores.create", t, VsPc.createWait[t])
    /\ UNCHANGED <<gvVars, indexExists, upVars, dispVars, evalVars, kernVars>>
    /\ UNCHANGED nonNbVars

\* the service makes a new store without files and the name of its id is
\* bound to it, or the call raises
CreateStoreReturn(t) ==
    /\ pc = VsPc.createWait[t]
    /\ \/ /\ Answer("vector_stores.create", t, VsPc.createNext[t])
          /\ vs' = [vs EXCEPT ![t] = "created"]
          /\ store' = [store EXCEPT ![t] = <<>>]
       \/ /\ Failure("vector_stores.create", t)
          /\ UNCHANGED <<vs, store>>
    /\ UNCHANGED <<gvVars, indexExists, df, hasMonth, k, file_ids,
                   vector_store_id, upCall, dispVars, evalVars, kernel_df,
                   eval_id>>
    /\ UNCHANGED nonNbVars

\* the last cell of the notebook
StartDeleteStores ==
    /\ Begin("delete_stores", "vd_delete1")
    /\ ResetGv /\ ResetUp /\ ResetDisp
    /\ UNCHANGED <<indexExists, evalVars, kernVars>>
    /\ UNCHANGED nonNbVars

\* client.vector_stores.delete(vector_store_id=text_vector_store_id), then
\* the same for text_image_vector_store_id: NameError while the name is not
\* bound
DeleteStoreSend(t) ==
    /\ pc = VsPc.delete[t]
    /\ IF vs[t] = "unbound" THEN Raise("NameError")
       ELSE Send("vector_stores.delete", t, VsPc.deleteWait[t])
    /\ UNCHANGED <<gvVars, indexExists, upVars, dispVars, evalVars, kernVars>>
    /\ UNCHANGED nonNbVars

\* the service deletes the store, when it has it, with its files; or the
\* call raises
DeleteStoreReturn(t) ==
    /\ pc = VsPc.deleteWait[t]
    /\ \/ /\ vs[t] = "created"
          /\ Answer("vector_stores.delete", t, VsPc.deleteNext[t])
          /\ vs' = [vs EXCEPT ![t] = "deleted"]
          /\ store' = [store EXCEPT ![t] = <<>>]
       \/ /\ Failure("vector_stores.delete", t)
          /\ UNCHANGED <<vs, store>>
    /\ UNCHANGED <<gvVars, indexExists, df, hasMonth, k, file_ids,
                   vector_store_id, upCall, dispVars, evalVars, kernel_df,
                   eval_id>>
    /\ UNCHANGED nonNbVars

\* ------------------------------------------ generate_food_delivery_review
\* the cell defines the function and calls it: review =
\* generate_food_delivery_review()
StartReview ==
    /\ Begin("review", "rv_create")
    /\ ResetGv /\ ResetUp /\ ResetDisp
    /\ UNCHANGED <<indexExists, evalVars, kernVars>>
    /\ UNCHANGED nonNbVars

\* response = client.responses.create(model="gpt-4.1", input=[...]), a
\* local name of the function
ReviewSend ==
    /\ pc = "rv_create"
    /\ Send("responses.create", 0, "rv_create_wait")
    /\ UNCHANGED <<gvVars, indexExists, upVars, dispVars, evalVars, kernVars>>
    /\ UNCHANGED nonNbVars

\* return response.output_text, which is printed; or the call raises
ReviewReturn ==
    /\ pc = "rv_create_wait"
    /\ \/ Answer("responses.create", 0, "done")
       \/ Failure("responses.create", 0)
    /\ UNCHANGED <<gvVars, indexExists, upVars, dispVars, evalVars, kernVars>>
    /\ UNCHANGED nonNbVars

\* ------------------------------------------------ analyze_image_sentiment
StartAnalyze ==
    /\ Begin("analyze_image_sentiment", "an_encode")
    /\ ResetGv /\ ResetUp /\ ResetDisp
    /\ UNCHANGED evalVars
    /\ UNCHANGED indexExists
    /\ UNCHANGED kernVars
    /\ UNCHANGED nonNbVars

\* base64_image = encode_image(image_path): open(image_path, "rb") raises
\* FileNotFoundError when there is no such file
AnalyzeEncode ==
    /\ pc = "an_encode"
    /\ \/ Goto("an_create")
       \/ Raise("FileNotFoundError")
    /\ UNCHANGED <<gvVars, indexExists, upVars, dispVars, evalVars>>
    /\ UNCHANGED kernVars
    /\ UNCHANGED nonNbVars

\* response = client.responses.create(model="gpt-4.1", input=[...])
AnalyzeSend ==
    /\ pc = "an_create"
    /\ Send("responses", 0, "an_create_wait")
    /\ UNCHANGED <<gvVars, indexExists, upVars, dispVars, evalVars>>
    /\ UNCHANGED kernVars
    /\ UNCHANGED nonNbVars

\* return response.output_text.strip(), or the call raises
AnalyzeReturn ==
    /\ pc = "an_create_wait"
    /\ \/ Answer("responses", 0, "done")
       \/ Failure("responses", 0)
    /\ UNCHANGED <<gvVars, indexExists, upVars, dispVars, evalVars>>
    /\ UNCHANGED kernVars
    /\ UNCHANGED nonNbVars

\* ------------------------------------------------- the full_sentiment cell
\* df = pd.read_csv(".local_cache/df.csv"): the rows of the dataset, at
\* least one. A row has its id (the number of the row in the file, 0 when
\* the file has no column id), its month ("absent" when the file has no
\* such column), its image_path and its text (a text or NaN) and
\* full_sentiment (a text the file gives, NaN, or "absent" when the file
\* has no such column)
SentFrames ==
    UNION {{[i \in 1..n |->
                [id |-> i,
                 month |-> "july",
                 image_path |-> r[i].image_path,
                 text |-> r[i].text,
                 full_sentiment |->
                     IF c THEN r[i].full_sentiment ELSE <<"absent">>]] :
              r \in [1..n -> [image_path : {<<"NaN">>, <<"img">>},
                              text : {<<"NaN">>, <<"t">>},
                              full_sentiment : {<<"NaN">>, <<"old">>}]],
              c \in BOOLEAN} :
           n \in 1..MaxRows}

\* response.output_text.strip(): a text, which may be empty
Sentiments == {<<"s">>, <<>>}

\* variant of NextImageRow: the loop visits every row
NextImageRow_AllRows(d, after) ==
    IF after < Len(d) THEN after + 1 ELSE 0

\* df[~df['image_path'].isna()].iterrows(): the first row after position
\* 'after' that has an image, 0 when there is none
NextImageRow(d, after) ==
    LET rest == {i \in (after + 1)..Len(d) : d[i].image_path # <<"NaN">>}
    IN  IF rest = {} THEN 0
        ELSE CHOOSE i \in rest : \A j \in rest : i <= j

\* the cell reads the file d into the global df
StartSentimentCell(d) ==
    /\ Begin("full_sentiment", "fs_loop")
    /\ kernel_df' = d
    /\ k' = 0
    /\ df' = <<>>
    /\ hasMonth' = TRUE
    /\ file_ids' = <<>>
    /\ vector_store_id' = 0
    /\ upCall' = 0
    /\ ResetGv /\ ResetDisp
    /\ UNCHANGED <<indexExists, store, evalVars, vs, eval_id>>
    /\ UNCHANGED nonNbVars

\* the next row that has an image: sentiment = analyze_image_sentiment(...)
\* reads the image file, FileNotFoundError when it is missing, and sends
\* the image to the model
SentimentSend ==
    /\ pc = "fs_loop"
    /\ NextImageRow(kernel_df, k) # 0
    /\ k' = NextImageRow(kernel_df, k)
    /\ \/ Send("responses", k', "fs_wait")
       \/ Raise("FileNotFoundError")
    /\ UNCHANGED <<gvVars, indexExists, df, hasMonth, file_ids,
                   vector_store_id, upCall, store, dispVars, evalVars>>
    /\ UNCHANGED kernVars
    /\ UNCHANGED nonNbVars

\* the model answers: df.at[idx, 'full_sentiment'] =
\* f"{row['text']} {sentiment}" if pd.notna(row['text']) else sentiment,
\* which makes the column when the DataFrame has none; or the call raises
SentimentReturn ==
    /\ pc = "fs_wait"
    /\ \/ /\ Answer("responses", k, "fs_loop")
          /\ \E sentiment \in Sentiments :
                kernel_df' = [i \in 1..Len(kernel_df) |->
                         IF i = k
                         THEN [kernel_df[i] EXCEPT !.full_sentiment =
                                  IF kernel_df[i].text # <<"NaN">>
                                  THEN kernel_df[i].text \o <<" ">>
                                           \o sentiment
                                  ELSE sentiment]
                         ELSE IF kernel_df[i].full_sentiment = <<"absent">>
                         THEN [kernel_df[i] EXCEPT
                                  !.full_sentiment = <<"NaN">>]
                         ELSE kernel_df[i]]
       \/ /\ Failure("responses", k)
          /\ UNCHANGED kernel_df
    /\ UNCHANGED <<gvVars, indexExists, upVars, dispVars, evalVars, vs,
                   eval_id>>
    /\ UNCHANGED nonNbVars

\* the loop is over: df['full_sentiment'] =
\* df['full_sentiment'].fillna(df['text']), which raises KeyError when no
\* row had an image and the file had no such column; then df.to_csv(...)
SentimentFill ==
    /\ pc = "fs_loop"
    /\ NextImageRow(kernel_df, k) = 0
    /\ IF kernel_df[1].full_sentiment = <<"absent">>
       THEN /\ Raise("KeyError")
            /\ UNCHANGED kernel_df
       ELSE /\ Goto("done")
            /\ kernel_df' = [i \in 1..Len(kernel_df) |->
                         IF kernel_df[i].full_sentiment = <<"NaN">>
                         THEN [kernel_df[i] EXCEPT
                                  !.full_sentiment = kernel_df[i].text]
                         ELSE kernel_df[i]]
    /\ UNCHANGED <<gvVars, indexExists, upVars, dispVars, evalVars, vs,
                   eval_id>>
    /\ UNCHANGED nonNbVars

\* ------------------------------------------ upload_files_to_vector_store
\* a row of the DataFrame the function is given has its index label, its
\* id (0 when the DataFrame has no column id), the value of the chosen
\* column (NaN when missing, "absent" when the DataFrame has no such
\* column) and its month.
\* the DataFrames of at most MaxRows rows; the index labels of a DataFrame
\* read from a CSV file are unique, in any order once rows are filtered or
\* sorted; the ids of the data set, when it has the column, count the rows
\* of the file from 1
DataFrames ==
    LET labels == {l \in UNION {[1..n -> 0..(MaxRows - 1)] : n \in 0..MaxRows} :
                      \A i, j \in 1..Len(l) : i # j => l[i] # l[j]}
    IN  UNION {{[i \in 1..Len(l) |->
                    [label |-> l[i], id |-> IF c.ids THEN l[i] + 1 ELSE 0,
                     val |-> IF c.col THEN r[i].val ELSE <<"absent">>,
                     month |-> r[i].month]] :
                  r \in [1..Len(l) -> [val : {<<"NaN">>, <<"t">>},
                                       month : {"june", "july"}]],
                  c \in [ids : BOOLEAN, col : BOOLEAN]} : l \in labels}

\* the rows of the global df as the function sees them when it is given df
\* and the name of a column: pd.read_csv labels the rows 0, 1, 2, ...
View(d, column_name) ==
    [i \in 1..Len(d) |->
        [label |-> i - 1, id |-> d[i].id,
         val |-> IF column_name = "text" THEN d[i].text
                 ELSE d[i].full_sentiment,
         month |-> d[i].month]]

\* BytesIO(...) of the row: the placeholder text when the value is missing
FileContent(row) ==
    IF row.val = <<"NaN">> THEN <<"No information available.">> ELSE row.val

\* f"context_{row.get('id', i)}_{row.get('month', '')}.txt"
FileName(row, withMonth) ==
    <<"context", IF row.id # 0 THEN row.id ELSE row.label,
      IF withMonth THEN row.month ELSE "", ".txt">>

\* the function is called with the id of the store t, the DataFrame d that
\* has the column month or not (m), and the name of one of its columns
upload_files_to_vector_store(t, d, m) ==
    /\ Begin("upload", "up_upload")
    /\ df' = d
    /\ hasMonth' = m
    /\ k' = 1
    /\ file_ids' = <<>>
    /\ vector_store_id' = t
    /\ upCall' = 0
    /\ UNCHANGED store
    /\ ResetGv /\ ResetDisp
    /\ UNCHANGED evalVars
    /\ UNCHANGED indexExists
    /\ UNCHANGED kernVars
    /\ UNCHANGED nonNbVars

\* the cell upload_files_to_vector_store(text_image_vector_store_id, df);
\* upload_files_to_vector_store(text_vector_store_id, df,
\* column_name="text"): NameError while the name of the id or df is not
\* bound, else the first call starts
StartUpload ==
    /\ IF vs[2] = "unbound" \/ kernel_df = <<>>
       THEN /\ Unbound("upload")
            /\ ResetUp
       ELSE /\ Begin("upload", "up_upload")
            /\ df' = View(kernel_df, "full_sentiment")
            /\ hasMonth' = (kernel_df[1].month # "absent")
            /\ k' = 1
            /\ file_ids' = <<>>
            /\ vector_store_id' = 2
            /\ upCall' = 1
            /\ UNCHANGED store
    /\ ResetGv /\ ResetDisp
    /\ UNCHANGED evalVars
    /\ UNCHANGED indexExists
    /\ UNCHANGED kernVars
    /\ UNCHANGED nonNbVars

\* variant of UploadSend: a row whose chosen column is missing is skipped
UploadSend_SkipMissing ==
    /\ pc = "up_upload"
    /\ k <= Len(df)
    /\ IF df[k].val = <<"absent">>
       THEN /\ Raise("KeyError")
            /\ UNCHANGED upVars
       ELSE IF df[k].val = <<"NaN">>
       THEN /\ Goto("up_upload")
            /\ k' = k + 1
            /\ UNCHANGED <<df, hasMonth, file_ids, vector_store_id, upCall,
                           store>>
       ELSE /\ Send("upload", <<vector_store_id, k>>, "up_upload_wait")
            /\ UNCHANGED upVars
    /\ UNCHANGED <<gvVars, indexExists, dispVars, evalVars>>
    /\ UNCHANGED kernVars
    /\ UNCHANGED nonNbVars

\* first loop: pd.isna(row[column_name]) raises KeyError when the DataFrame
\* has no such column; else client.vector_stores.files.upload(
\* vector_store_id, file)
UploadSend ==
    /\ pc = "up_upload"
    /\ k <= Len(df)
    /\ IF df[k].val = <<"absent">> THEN Raise("KeyError")
       ELSE Send("upload", <<vector_store_id, k>>, "up_upload_wait")
    /\ UNCHANGED <<gvVars, indexExists, upVars, dispVars, evalVars>>
    /\ UNCHANGED kernVars
    /\ UNCHANGED nonNbVars

\* the file the service makes of the upload of row k
UploadedFile ==
    [name |-> FileName(df[k], hasMonth), content |-> FileContent(df[k]),
     attributes |-> "none"]

\* variant of UploadReturn: a failed upload is sent again
UploadReturn_Retry ==
    /\ pc = "up_upload_wait"
    /\ \/ /\ vs[vector_store_id] = "created"
          /\ Answer("upload", <<vector_store_id, k>>, "up_upload")
          /\ store' = [store EXCEPT ![vector_store_id] =
                          Append(@, UploadedFile)]
          /\ file_ids' = Append(file_ids, Len(store[vector_store_id]) + 1)
          /\ k' = k + 1
       \/ /\ inflight' = inflight \ {[op |-> "upload",
                                      key |-> <<vector_store_id, k>>]}
          /\ failedOp' = "upload"
          /\ pc' = "up_upload"
          /\ UNCHANGED <<cell, err, calls, k, file_ids, store>>
    /\ UNCHANGED <<gvVars, indexExists, df, hasMonth, vector_store_id,
                   upCall, dispVars, evalVars>>
    /\ UNCHANGED kernVars
    /\ UNCHANGED nonNbVars

\* the service stores the file in the vector store, when it has it, and
\* returns the file: file_ids.append(file.id); or the call raises
UploadReturn ==
    /\ pc = "up_upload_wait"
    /\ \/ /\ vs[vector_store_id] = "created"
          /\ Answer("upload", <<vector_store_id, k>>, "up_upload")
          /\ store' = [store EXCEPT ![vector_store_id] =
                          Append(@, UploadedFile)]
          /\ file_ids' = Append(file_ids, Len(store[vector_store_id]) + 1)
          /\ k' = k + 1
       \/ /\ Failure("upload", <<vector_store_id, k>>)
          /\ UNCHANGED <<k, file_ids, store>>
    /\ UNCHANGED <<gvVars, indexExists, df, hasMonth, vector_store_id,
                   upCall, dispVars, evalVars>>
    /\ UNCHANGED kernVars
    /\ UNCHANGED nonNbVars

\* the first loop is over, the second starts
UploadLoopEnd ==
    /\ pc = "up_upload"
    /\ k > Len(df)
    /\ Goto("up_update")
    /\ k' = 1
    /\ UNCHANGED <<gvVars, indexExists, df, hasMonth, file_ids,
                   vector_store_id, upCall, store, dispVars, evalVars>>
    /\ UNCHANGED kernVars
    /\ UNCHANGED nonNbVars

\* second loop: client.vector_stores.files.update(vector_store_id,
\* file_id=file_ids[i], attributes={"month": row["month"]}); the arguments
\* are evaluated first: file_ids[i] raises IndexError when the label i is
\* past the end of the list, row["month"] raises KeyError without the column
UpdateSend ==
    /\ pc = "up_update"
    /\ k <= Len(df)
    /\ IF df[k].label >= Len(file_ids) THEN Raise("IndexError")
       ELSE IF ~hasMonth THEN Raise("KeyError")
       ELSE Send("update", <<vector_store_id, k>>, "up_update_wait")
    /\ UNCHANGED <<gvVars, indexExists, upVars, dispVars, evalVars>>
    /\ UNCHANGED kernVars
    /\ UNCHANGED nonNbVars

\* the service sets the attribute on the file of that id, or the call raises
UpdateReturn ==
    /\ pc = "up_update_wait"
    /\ \/ /\ vs[vector_store_id] = "created"
          /\ Answer("update", <<vector_store_id, k>>, "up_update")
          /\ store' = [store EXCEPT
                          ![vector_store_id][file_ids[df[k].label + 1]]
                              .attributes = df[k].month]
          /\ k' = k + 1
       \/ /\ Failure("update", <<vector_store_id, k>>)
          /\ UNCHANGED <<k, store>>
    /\ UNCHANGED <<gvVars, indexExists, df, hasMonth, file_ids,
                   vector_store_id, upCall, dispVars, evalVars>>
    /\ UNCHANGED kernVars
    /\ UNCHANGED nonNbVars

\* the function returns. After the first call of the cell the second one
\* starts: upload_files_to_vector_store(text_vector_store_id, df,
\* column_name="text"), NameError while the name of the id is not bound;
\* after the second call, or a call on its own, the cell is done
UpdateLoopEnd ==
    /\ pc = "up_update"
    /\ k > Len(df)
    /\ IF upCall # 1
       THEN /\ Goto("done")
            /\ UNCHANGED upVars
       ELSE IF vs[1] = "unbound"
       THEN /\ Raise("NameError")
            /\ UNCHANGED upVars
       ELSE /\ Goto("up_upload")
            /\ df' = View(kernel_df, "text")
            /\ k' = 1
            /\ file_ids' = <<>>
            /\ vector_store_id' = 1
            /\ upCall' = 2
            /\ UNCHANGED <<hasMonth, store>>
    /\ UNCHANGED <<gvVars, indexExists, dispVars, evalVars>>
    /\ UNCHANGED kernVars
    /\ UNCHANGED nonNbVars

\* ------------------------------------------------ display_retrieved_images
\* names of files a response may cite: context_<id>_<month>.txt
FileNames ==
    {<<"context", i, m, ".txt">> : i \in 1..2, m \in {"june", "july"}}

\* a response of the search: without a second output item (IndexError),
\* with a second item that has no content (AttributeError), or with the
\* annotations naming the retrieved files
Responses ==
    {[kind |-> "no_output", files |-> {}], [kind |-> "no_content", files |-> {}]}
    \cup {[kind |-> "ok", files |-> fs] : fs \in SUBSET FileNames}

\* a search cell: response = client.responses.create(model, input=query,
\* tools=[file_search ...]) on the store of text (the first search cell)
\* or on the store of text and image (the two others)
StartSearchCell(t) ==
    /\ Begin("search", "sc_create")
    /\ df' = <<>>
    /\ hasMonth' = TRUE
    /\ k' = 0
    /\ file_ids' = <<>>
    /\ vector_store_id' = t
    /\ upCall' = 0
    /\ UNCHANGED store
    /\ ResetGv /\ ResetDisp
    /\ UNCHANGED evalVars
    /\ UNCHANGED indexExists
    /\ UNCHANGED kernVars
    /\ UNCHANGED nonNbVars

\* the arguments name text_vector_store_id or text_image_vector_store_id:
\* NameError while it is not bound
SearchCellSend ==
    /\ pc = "sc_create"
    /\ IF vs[vector_store_id] = "unbound" THEN Raise("NameError")
       ELSE Send("responses.create", "search", "sc_create_wait")
    /\ UNCHANGED <<gvVars, indexExists, upVars, dispVars, evalVars>>
    /\ UNCHANGED kernVars
    /\ UNCHANGED nonNbVars

\* the service searches the store, when it has it, and the response r is
\* bound to the global name response; or the call raises
SearchCellReturn(r) ==
    /\ pc = "sc_create_wait"
    /\ \/ /\ vs[vector_store_id] = "created"
          /\ Answer("responses.create", "search", "done")
          /\ response' = r
       \/ /\ Failure("responses.create", "search")
          /\ UNCHANGED response
    /\ UNCHANGED <<gvVars, indexExists, upVars, inspectFailed,
                   retrieved_files, displayed_images, displayed,
                   IMAGE_ID_MAPPING, evalVars>>
    /\ UNCHANGED kernVars
    /\ UNCHANGED nonNbVars

\* {f"context_{row['id']}_{row['month']}.txt": row["image_path"] for _, row
\* in df[~df['image_path'].isna()].iterrows()}: filename -> image path, as
\* a set of pairs
MappingOf(d) ==
    {<<<<"context", d[i].id, d[i].month, ".txt">>, d[i].image_path>> :
        i \in {j \in 1..Len(d) : d[j].image_path # <<"NaN">>}}

\* what building the mapping raises: row['id'], then row['month'], of the
\* first row with an image when the DataFrame has no such column
MappingError(d) ==
    IF NextImageRow(d, 0) = 0 THEN "none"
    ELSE IF d[1].id = 0 \/ d[1].month = "absent" THEN "KeyError"
    ELSE "none"

\* the cell that defines IMAGE_ID_MAPPING and display_retrieved_images and
\* ends with displayed = display_retrieved_images(response): NameError
\* while df is not bound; KeyError from the rows; then the two names are
\* bound and the call reads the response an earlier cell has left in the
\* kernel, NameError when none has
StartDisplay ==
    /\ IF kernel_df = <<>>
       THEN /\ Unbound("display")
            /\ UNCHANGED IMAGE_ID_MAPPING
       ELSE IF MappingError(kernel_df) # "none"
       THEN /\ StartRaise("display", MappingError(kernel_df))
            /\ UNCHANGED IMAGE_ID_MAPPING
       ELSE /\ IMAGE_ID_MAPPING' =
                  [bound |-> TRUE, map |-> MappingOf(kernel_df)]
            /\ IF response.kind = "none"
               THEN Unbound("display")
               ELSE Begin("display", "dp_inspect")
    /\ UNCHANGED <<response, displayed>>
    /\ inspectFailed' = FALSE
    /\ retrieved_files' = {}
    /\ displayed_images' = {}
    /\ ResetGv /\ ResetUp
    /\ UNCHANGED evalVars
    /\ UNCHANGED indexExists
    /\ UNCHANGED kernVars
    /\ UNCHANGED nonNbVars

\* the later cell displayed = display_retrieved_images(response): NameError
\* while the function or the response is not bound
StartDisplayAgain ==
    /\ IF ~IMAGE_ID_MAPPING.bound \/ response.kind = "none"
       THEN Unbound("display_again")
       ELSE Begin("display_again", "dp_inspect")
    /\ UNCHANGED <<response, displayed, IMAGE_ID_MAPPING>>
    /\ inspectFailed' = FALSE
    /\ retrieved_files' = {}
    /\ displayed_images' = {}
    /\ ResetGv /\ ResetUp
    /\ UNCHANGED evalVars
    /\ UNCHANGED indexExists
    /\ UNCHANGED kernVars
    /\ UNCHANGED nonNbVars

\* displayed = <the dict the call returns>
Returned(m) ==
    [bound |-> TRUE, map |-> m, response |-> response,
     mapping |-> IMAGE_ID_MAPPING.map]

\* variant of InspectResponse: the annotations are taken out of the response
InspectResponse_Consumes ==
    /\ pc = "dp_inspect"
    /\ IF response.kind # "ok"
       THEN /\ inspectFailed' = TRUE
            /\ displayed' = Returned({})
            /\ Goto("dp_print")
            /\ UNCHANGED <<retrieved_files, response>>
       ELSE /\ retrieved_files' = response.files
            /\ response' = [response EXCEPT !.files = {}]
            /\ Goto("dp_loop")
            /\ UNCHANGED <<inspectFailed, displayed>>
    /\ UNCHANGED <<gvVars, indexExists, upVars, displayed_images,
                   IMAGE_ID_MAPPING, evalVars>>
    /\ UNCHANGED kernVars
    /\ UNCHANGED nonNbVars

\* try: annotations = response.output[1].content[0].annotations ...
\* except (AttributeError, IndexError): print(...); return {}
InspectResponse ==
    /\ pc = "dp_inspect"
    /\ IF response.kind # "ok"
       THEN /\ inspectFailed' = TRUE
            /\ displayed' = Returned({})
            /\ Goto("dp_print")
            /\ UNCHANGED retrieved_files
       ELSE /\ retrieved_files' = response.files
            /\ Goto("dp_loop")
            /\ UNCHANGED <<inspectFailed, displayed>>
    /\ UNCHANGED <<gvVars, indexExists, upVars, response, displayed_images,
                   IMAGE_ID_MAPPING, evalVars>>
    /\ UNCHANGED kernVars
    /\ UNCHANGED nonNbVars

\* str(Path(cache_dir) / 'images' / IMAGE_ID_MAPPING[file])
ImagePath(map, file) ==
    <<".local_cache", "images", (CHOOSE p \in map : p[1] = file)[2]>>

\* variant of DisplayFile: displayed_images = {} is set inside the loop, so
\* the mapping keeps the file visited last only
DisplayFile_KeepLast ==
    /\ pc = "dp_loop"
    /\ \E f \in retrieved_files :
          /\ retrieved_files' = retrieved_files \ {f}
          /\ IF \E p \in IMAGE_ID_MAPPING.map : p[1] = f
             THEN displayed_images' =
                     {<<f, ImagePath(IMAGE_ID_MAPPING.map, f)>>}
             ELSE displayed_images' = {}
    /\ Goto("dp_loop")
    /\ UNCHANGED <<gvVars, indexExists, upVars, response, inspectFailed,
                   displayed, IMAGE_ID_MAPPING, evalVars>>
    /\ UNCHANGED kernVars
    /\ UNCHANGED nonNbVars

\* for file in retrieved_files: a set, visited in any order;
\* if file in IMAGE_ID_MAPPING and IMAGE_ID_MAPPING[file]: the global dict
\* as the kernel has it when the function runs
DisplayFile ==
    /\ pc = "dp_loop"
    /\ \E f \in retrieved_files :
          /\ retrieved_files' = retrieved_files \ {f}
          /\ IF \E p \in IMAGE_ID_MAPPING.map : p[1] = f
             THEN displayed_images' = displayed_images \cup
                     {<<f, ImagePath(IMAGE_ID_MAPPING.map, f)>>}
             ELSE UNCHANGED displayed_images
    /\ Goto("dp_loop")
    /\ UNCHANGED <<gvVars, indexExists, upVars, response, inspectFailed,
                   displayed, IMAGE_ID_MAPPING, evalVars>>
    /\ UNCHANGED kernVars
    /\ UNCHANGED nonNbVars

\* return displayed_images, bound to the global name displayed
DisplayReturn ==
    /\ pc = "dp_loop"
    /\ retrieved_files = {}
    /\ displayed' = Returned(displayed_images)
    /\ Goto("dp_print")
    /\ UNCHANGED <<gvVars, indexExists, upVars, response, inspectFailed,
                   retrieved_files, displayed_images, IMAGE_ID_MAPPING,
                   evalVars>>
    /\ UNCHANGED kernVars
    /\ UNCHANGED nonNbVars

\* print(f"Displayed {len(displayed)} images")
PrintDisplayed ==
    /\ pc = "dp_print"
    /\ Goto("done")
    /\ UNCHANGED <<gvVars, indexExists, upVars, dispVars, evalVars>>
    /\ UNCHANGED kernVars
    /\ UNCHANGED nonNbVars

\* ------------------------------------------------------- evaluation cells
\* the positions of the two calls of each kind: before the call, waiting for
\* its answer, after it
EvalPc ==
    [create |-> <<"ev_create1", "ev_create2">>,
     createWait |-> <<"ev_create1_wait", "ev_create2_wait">>,
     createNext |-> <<"ev_create2", "ev_retrieve1">>,
     retrieve |-> <<"ev_retrieve1", "ev_retrieve2">>,
     retrieveWait |-> <<"ev_retrieve1_wait", "ev_retrieve2_wait">>,
     retrieveNext |-> <<"ev_retrieve2", "done">>,
     list |-> <<"ev_list1", "ev_list2">>,
     listWait |-> <<"ev_list1_wait", "ev_list2_wait">>,
     listNext |-> <<"ev_list2", "done">>]

\* the cell eval_obj = client.evals.create(...)
StartEvalCreate ==
    /\ Begin("evals_create", "ec_create")
    /\ ResetGv /\ ResetUp /\ ResetDisp
    /\ UNCHANGED <<indexExists, evalVars, kernVars>>
    /\ UNCHANGED nonNbVars

EvalCreateSend ==
    /\ pc = "ec_create"
    /\ Send("evals.create", 0, "ec_create_wait")
    /\ UNCHANGED <<gvVars, indexExists, upVars, dispVars, evalVars, kernVars>>
    /\ UNCHANGED nonNbVars

\* the service makes a new evaluation: eval_id = eval_obj.id; or the call
\* raises
EvalCreateReturn ==
    /\ pc = "ec_create_wait"
    /\ \/ /\ Answer("evals.create", 0, "done")
          /\ eval_id' = eval_id + 1
       \/ /\ Failure("evals.create", 0)
          /\ UNCHANGED eval_id
    /\ UNCHANGED <<gvVars, indexExists, upVars, dispVars, evalVars, vs,
                   kernel_df>>
    /\ UNCHANGED nonNbVars

\* the cell that creates the two evaluation runs and prints their urls
StartEvalRuns ==
    /\ Begin("eval_runs", "ev_create1")
    /\ ResetGv /\ ResetUp /\ ResetDisp
    /\ UNCHANGED <<indexExists, evalVars, kernVars>>
    /\ UNCHANGED nonNbVars

\* what evaluating the arguments of the r-th create_eval_run raises:
\* prepare_evaluation_data(df, text_col="text") and then eval_id read
\* global names, prepare_evaluation_data(df) reads the column
\* full_sentiment
RunArgsError(r) ==
    IF kernel_df = <<>> \/ eval_id = 0 THEN "NameError"
    ELSE IF r = 2 /\ kernel_df[1].full_sentiment = <<"absent">>
    THEN "KeyError"
    ELSE "none"

\* create_eval_run: run = client.evals.runs.create(eval_id, data_source)
CreateRunSend(r) ==
    /\ pc = EvalPc.create[r]
    /\ IF RunArgsError(r) # "none" THEN Raise(RunArgsError(r))
       ELSE Send("runs.create", r, EvalPc.createWait[r])
    /\ UNCHANGED <<gvVars, indexExists, upVars, dispVars, evalVars, kernVars>>
    /\ UNCHANGED nonNbVars

\* the service queues a new run of the evaluation and answers with it:
\* return run.id, bound to text_only_run_id or text_image_run_id; or the
\* call raises
CreateRunReturn(r) ==
    /\ pc = EvalPc.createWait[r]
    /\ \/ /\ Answer("runs.create", r, EvalPc.createNext[r])
          /\ run_ids' = [run_ids EXCEPT ![r] = Len(runStatus) + 1]
          /\ runStatus' = Append(runStatus, [eval |-> eval_id,
                                             status |-> "queued"])
       \/ /\ Failure("runs.create", r)
          /\ UNCHANGED <<run_ids, runStatus>>
    /\ UNCHANGED <<gvVars, indexExists, upVars, dispVars, items, kernVars>>
    /\ UNCHANGED nonNbVars

\* client.evals.runs.retrieve(eval_id=eval_id, run_id=...)
RetrieveSend(r) ==
    /\ pc = EvalPc.retrieve[r]
    /\ Send("runs.retrieve", r, EvalPc.retrieveWait[r])
    /\ UNCHANGED <<gvVars, indexExists, upVars, dispVars, evalVars, kernVars>>
    /\ UNCHANGED nonNbVars

\* print(run.to_dict()['report_url']), or the call raises
RetrieveReturn(r) ==
    /\ pc = EvalPc.retrieveWait[r]
    /\ \/ Answer("runs.retrieve", r, EvalPc.retrieveNext[r])
       \/ Failure("runs.retrieve", r)
    /\ UNCHANGED <<gvVars, indexExists, upVars, dispVars, evalVars, kernVars>>
    /\ UNCHANGED nonNbVars

\* the evaluation service works on a run after runs.create has answered
EvalRunProgress(id) ==
    /\ id \in 1..Len(runStatus)
    /\ runStatus[id].status \in {"queued", "in_progress"}
    /\ runStatus' = [runStatus EXCEPT ![id].status =
                        IF @ = "queued" THEN "in_progress" ELSE "completed"]
    /\ UNCHANGED <<ctlVars, gvVars, indexExists, upVars, dispVars, run_ids,
                   items, kernVars>>
    /\ UNCHANGED nonNbVars

\* the next cell ("you may need to wait a few seconds before running this
\* cell")
StartEvalItems ==
    /\ Begin("eval_items", "ev_list1")
    /\ ResetGv /\ ResetUp /\ ResetDisp
    /\ UNCHANGED <<indexExists, evalVars, kernVars>>
    /\ UNCHANGED nonNbVars

\* client.evals.runs.output_items.list(eval_id=eval_id, run_id=...): the
\* arguments read eval_id and the run id, NameError while one is not bound
ListSend(r) ==
    /\ pc = EvalPc.list[r]
    /\ IF eval_id = 0 \/ run_ids[r] = 0
       THEN Raise("NameError")
       ELSE Send("output_items.list", r, EvalPc.listWait[r])
    /\ UNCHANGED <<gvVars, indexExists, upVars, dispVars, evalVars, kernVars>>
    /\ UNCHANGED nonNbVars

\* the service answers with the output items the run of that evaluation
\* has produced so far, bound to text_only_run_output_items or
\* text_image_run_output_items; or the call raises
ListReturn(r) ==
    /\ pc = EvalPc.listWait[r]
    /\ \/ /\ runStatus[run_ids[r]].eval = eval_id
          /\ Answer("output_items.list", r, EvalPc.listNext[r])
          /\ items' = [items EXCEPT ![r] =
                          IF runStatus[run_ids[r]].status = "completed"
                          THEN "complete" ELSE "partial"]
       \/ /\ Failure("output_items.list", r)
          /\ UNCHANGED items
    /\ UNCHANGED <<gvVars, indexExists, upVars, dispVars, run_ids, runStatus,
                   kernVars>>
    /\ UNCHANGED nonNbVars

\* ------------------------------------------------ image generation cell
Prompts == {1, 2}

\* seeds of str hashing: a Python process draws one when it starts
HashSeeds == {1, 2, 3}

\* hash(prompt) in a process of the given seed: a keyed hash, taken here
\* without collisions
hash(p, seed) == seed * Cardinality(Prompts) + p

\* the seed of the process of the first start
FirstSeed == CHOOSE s \in HashSeeds : \A t \in HashSeeds : s <= t

ImgIdle ==
    /\ imgPc = "idle"
    /\ hashSeed = FirstSeed
    /\ prompt = 1
    /\ cache_path = 0
    /\ cacheFiles = {}

\* the kernel is started: .local_cache was just created
ImgInit ==
    /\ imgPc = "idle"
    /\ hashSeed \in HashSeeds
    /\ prompt = 1
    /\ cache_path = 0
    /\ cacheFiles = {}

\* prompt = (...); cache_path = f".local_cache/{hash(prompt)}.png"
StartImageCell ==
    /\ Begin("image", "im_check")
    /\ \E p \in Prompts :
          /\ prompt' = p
          /\ cache_path' = hash(p, hashSeed)
    /\ imgPc' = "check"
    /\ ResetGv /\ ResetUp /\ ResetDisp
    /\ UNCHANGED <<hashSeed, cacheFiles>>
    /\ UNCHANGED <<indexExists, evalVars, kernVars>>
    /\ UNCHANGED <<csvVars, b64Vars, apiVars, srVars>>

\* if not os.path.exists(cache_path): ... else: print("Loading from cache")
CheckCache ==
    /\ pc = "im_check"
    /\ IF \E f \in cacheFiles : f.name = cache_path
       THEN Goto("im_display") /\ imgPc' = "display"
       ELSE Goto("im_generate") /\ imgPc' = "generate"
    /\ UNCHANGED <<hashSeed, prompt, cache_path, cacheFiles>>
    /\ UNCHANGED <<gvVars, indexExists, upVars, dispVars, evalVars, kernVars>>
    /\ UNCHANGED <<csvVars, b64Vars, apiVars, srVars>>

\* response = client.images.generate(model, prompt, size)
GenerateSend ==
    /\ pc = "im_generate"
    /\ Send("images.generate", 0, "im_generate_wait")
    /\ imgPc' = "generate_wait"
    /\ UNCHANGED <<hashSeed, prompt, cache_path, cacheFiles>>
    /\ UNCHANGED <<gvVars, indexExists, upVars, dispVars, evalVars, kernVars>>
    /\ UNCHANGED <<csvVars, b64Vars, apiVars, srVars>>

\* the call raises and the cell halts; or the answer is bound to the global
\* name response and open(cache_path, "wb") makes the file, into which the
\* decoded image is written, or which stays empty when base64.b64decode
\* raises
GenerateReturn ==
    /\ pc = "im_generate_wait"
    /\ \/ /\ Failure("images.generate", 0)
          /\ imgPc' = "error"
          /\ UNCHANGED <<cacheFiles, response>>
       \/ /\ response' = [kind |-> "image", files |-> {}]
          /\ \/ /\ Answer("images.generate", 0, "im_display")
                /\ cacheFiles' = cacheFiles \cup
                                  {[name |-> cache_path, image |-> prompt]}
                /\ imgPc' = "display"
             \/ /\ inflight' = inflight \ {[op |-> "images.generate",
                                            key |-> 0]}
                /\ err' = "binascii.Error"
                /\ pc' = "error"
                /\ UNCHANGED <<cell, calls, failedOp>>
                /\ cacheFiles' = cacheFiles \cup
                                  {[name |-> cache_path, image |-> 0]}
                /\ imgPc' = "error"
    /\ UNCHANGED <<hashSeed, prompt, cache_path>>
    /\ UNCHANGED <<gvVars, indexExists, upVars, inspectFailed,
                   retrieved_files, displayed_images, displayed,
                   IMAGE_ID_MAPPING, evalVars, kernVars>>
    /\ UNCHANGED <<csvVars, b64Vars, apiVars, srVars>>

\* display(Image(filename=cache_path))
DisplayImage ==
    /\ pc = "im_display"
    /\ Goto("done")
    /\ imgPc' = "done"
    /\ UNCHANGED <<hashSeed, prompt, cache_path, cacheFiles>>
    /\ UNCHANGED <<gvVars, indexExists, upVars, dispVars, evalVars, kernVars>>
    /\ UNCHANGED <<csvVars, b64Vars, apiVars, srVars>>

\* the kernel is restarted between two executions: the new process has its
\* own hash seed and no global name is bound in it; the files of
\* .local_cache and what the services hold stay
RestartKernel ==
    /\ pc \in {"idle", "done", "error"}
    /\ hashSeed' \in HashSeeds
    /\ imgPc' = "idle"
    /\ cache_path' = 0
    /\ response' = [kind |-> "none", files |-> {}]
    /\ displayed_images' = {}
    /\ displayed' = NotDisplayed
    /\ IMAGE_ID_MAPPING' = NoMapping
    /\ kernel_df' = <<>>
    /\ eval_id' = 0
    /\ run_ids' = <<0, 0>>
    /\ items' = <<"none", "none">>
    /\ vs' = <<"unbound", "unbound">>
    /\ cell' = "none"
    /\ pc' = "idle"
    /\ err' = "none"
    /\ calls' = <<>>
    /\ failedOp' = "none"
    /\ UNCHANGED <<prompt, cacheFiles>>
    /\ inspectFailed' = FALSE
    /\ retrieved_files' = {}
    /\ UNCHANGED <<inflight, gvVars, indexExists, upVars, runStatus>>
    /\ UNCHANGED <<csvVars, b64Vars, apiVars, srVars>>

NextImg ==
    \/ StartImageCell \/ CheckCache \/ GenerateSend \/ GenerateReturn
    \/ DisplayImage \/ RestartKernel

\* ------------------------------------------------ middleware databaseQuery
\* the table of the records, as the JSON-to-CSV cell writes it
RECURSIVE RowsCsv(_)
RowsCsv(d) ==
    IF d = <<>> THEN <<>>
    ELSE writerow([i \in 1..Len(d[1]) |-> Str(values(d[1])[i])])
         \o RowsCsv(Tail(d))

ToCsv(d) == writerow(keys(d[1])) \o RowsCsv(d)

\* a request: the X-Api-Key header and the SQL string q, which is a query,
\* a statement that writes, or not SQL
Requests ==
    [key : {"valid", "invalid", "missing"},
     q : {"select", "insert", "delete", "malformed"}]

\* the tables of the database: every row has the columns of the first one
Tables ==
    {d \in DataSets :
        Len(d) >= 1 /\ \A i \in 1..Len(d) : keys(d[i]) = keys(d[1])}

\* variant of StatusOf: a missing or invalid API key is reported as a bad
\* request
StatusOf_Unauthorized400(cause) ==
    IF cause = "records" THEN 200 ELSE 400

\* the responses the schema declares: "200" database records as an
\* openaiFileResponse array, "400" Bad Request, "401" Unauthorized
StatusOf(cause) ==
    IF cause = "records" THEN 200
    ELSE IF cause = "invalid input" THEN 400
    ELSE 401

\* variant of FileEnvelope: the MIME type of the file is left out
FileEnvelope_NoMimeType(content) ==
    [name |-> "output.csv", content |-> content]

\* an entry of openaiFileResponse: name, mime_type, content
FileEnvelope(content) ==
    [name |-> "output.csv", mime_type |-> "text/csv", content |-> content]

ApiIdle ==
    /\ apiPc = "idle"
    /\ request = [key |-> "valid", q |-> "select"]
    /\ dbResult = <<>>
    /\ mwCsv = <<>>
    /\ mwContent = <<>>
    /\ mwResponse = [status |-> 0, body |-> <<>>]
    /\ outcome = [kind |-> "none", category |-> "none", files |-> <<>>]
    /\ database = <<>>
    /\ readOnly = TRUE
    /\ mwSteps = <<>>

\* the middleware is deployed in front of a database, with read-only
\* permissions or without
ApiInit ==
    /\ apiPc = "idle"
    /\ request = [key |-> "valid", q |-> "select"]
    /\ dbResult = <<>>
    /\ mwCsv = <<>>
    /\ mwContent = <<>>
    /\ mwResponse = [status |-> 0, body |-> <<>>]
    /\ outcome = [kind |-> "none", category |-> "none", files |-> <<>>]
    /\ database \in Tables
    /\ readOnly \in BOOLEAN
    /\ mwSteps = <<>>

\* 1. accept database queries via REST API requests
AcceptRequest ==
    /\ apiPc \in {"idle", "received", "failed"}
    /\ request' \in Requests
    /\ apiPc' = "accepted"
    /\ dbResult' = <<>>
    /\ mwCsv' = <<>>
    /\ mwContent' = <<>>
    /\ mwResponse' = [status |-> 0, body |-> <<>>]
    /\ outcome' = [kind |-> "none", category |-> "none", files |-> <<>>]
    /\ mwSteps' = <<"accept">>
    /\ UNCHANGED <<database, readOnly>>
    /\ UNCHANGED nonApiVars

\* security: ApiKey in header X-Api-Key; "401": invalid or missing API key
CheckApiKey ==
    /\ apiPc = "accepted"
    /\ mwSteps' = Append(mwSteps, "authenticate")
    /\ IF request.key = "valid"
       THEN apiPc' = "authorized" /\ UNCHANGED mwResponse
       ELSE /\ apiPc' = "responded"
            /\ mwResponse' = [status |-> StatusOf("unauthorized"),
                               body |-> <<>>]
    /\ UNCHANGED <<request, dbResult, mwCsv, mwContent, outcome, database,
                   readOnly>>
    /\ UNCHANGED nonApiVars

\* the table after a statement that writes: insert adds a row (the table is
\* kept within MaxRecords rows), delete removes one
Written(stmt, table) ==
    IF stmt = "insert"
    THEN IF Len(table) >= 1 /\ Len(table) < MaxRecords
         THEN Append(table, table[Len(table)])
         ELSE table
    ELSE IF table = <<>> THEN table ELSE SubSeq(table, 1, Len(table) - 1)

\* variant of ForwardQuery: the database role of the middleware may write
\* although the deployment is meant to be read-only
ForwardQuery_WriteAccess ==
    /\ apiPc = "authorized"
    /\ mwSteps' = Append(mwSteps, "forward")
    /\ IF request.q = "select"
       THEN /\ dbResult' \in {database, <<>>}
            /\ apiPc' = "records"
            /\ UNCHANGED <<mwResponse, database>>
       ELSE IF request.q \in {"insert", "delete"}
       THEN /\ database' = Written(request.q, database)
            /\ dbResult' = <<>>
            /\ apiPc' = "records"
            /\ UNCHANGED mwResponse
       ELSE /\ apiPc' = "responded"
            /\ mwResponse' = [status |-> StatusOf("invalid input"),
                               body |-> <<>>]
            /\ UNCHANGED <<dbResult, database>>
    /\ UNCHANGED <<request, mwCsv, mwContent, outcome, readOnly>>
    /\ UNCHANGED nonApiVars

\* 2. forward the query to the database; "400": invalid input.
\* A query returns the rows it selects (here all of them or none); a
\* statement that writes is refused by the database when the middleware has
\* read-only permissions, and is executed and returns no rows otherwise.
ForwardQuery ==
    /\ apiPc = "authorized"
    /\ mwSteps' = Append(mwSteps, "forward")
    /\ IF request.q = "select"
       THEN /\ dbResult' \in {database, <<>>}
            /\ apiPc' = "records"
            /\ UNCHANGED <<mwResponse, database>>
       ELSE IF request.q \in {"insert", "delete"} /\ ~readOnly
       THEN /\ database' = Written(request.q, database)
            /\ dbResult' = <<>>
            /\ apiPc' = "records"
            /\ UNCHANGED mwResponse
       ELSE /\ apiPc' = "responded"
            /\ mwResponse' = [status |-> StatusOf("invalid input"),
                               body |-> <<>>]
            /\ UNCHANGED <<dbResult, database>>
    /\ UNCHANGED <<request, mwCsv, mwContent, outcome, readOnly>>
    /\ UNCHANGED nonApiVars

\* 3. convert the database response into a CSV file; the conversion raises
\* IndexError on an empty record sequence and the request fails
ConvertRecords ==
    /\ apiPc = "records"
    /\ mwSteps' = Append(mwSteps, "convert")
    /\ IF dbResult = <<>>
       THEN apiPc' = "failed" /\ UNCHANGED mwCsv
       ELSE mwCsv' = ToCsv(dbResult) /\ apiPc' = "csv"
    /\ UNCHANGED <<request, dbResult, mwContent, mwResponse, outcome,
                   database, readOnly>>
    /\ UNCHANGED nonApiVars

\* base64-encode the CSV file
EncodeFile ==
    /\ apiPc = "csv"
    /\ mwSteps' = Append(mwSteps, "encode")
    /\ mwContent' = Utf8Decode(b64encode(Utf8Encode(mwCsv)))
    /\ apiPc' = "encoded"
    /\ UNCHANGED <<request, dbResult, mwCsv, mwResponse, outcome, database,
                   readOnly>>
    /\ UNCHANGED nonApiVars

\* variant of ReturnFile: the response is sent as soon as the CSV text
\* exists, before the file is encoded
ReturnFile_BeforeEncode ==
    /\ apiPc = "csv"
    /\ mwSteps' = Append(mwSteps, "return")
    /\ mwResponse' = [status |-> StatusOf("records"),
                       body |-> <<FileEnvelope(mwContent)>>]
    /\ apiPc' = "responded"
    /\ UNCHANGED <<request, dbResult, mwCsv, mwContent, outcome, database,
                   readOnly>>
    /\ UNCHANGED nonApiVars

\* 4. return the CSV file to the requestor: "200" with openaiFileResponse
ReturnFile ==
    /\ apiPc = "encoded"
    /\ mwSteps' = Append(mwSteps, "return")
    /\ mwResponse' = [status |-> StatusOf("records"),
                       body |-> <<FileEnvelope(mwContent)>>]
    /\ apiPc' = "responded"
    /\ UNCHANGED <<request, dbResult, mwCsv, mwContent, outcome, database,
                   readOnly>>
    /\ UNCHANGED nonApiVars

\* the category of a non-success status: auth error for 401, client error
\* for the other 4xx
ErrorCategory(status) ==
    IF status = 401 THEN "auth_error" ELSE "client_error"

\* the External Service Client returns the parsed response or fails with
\* ServiceError on a non-success status
ClientReceive ==
    /\ apiPc = "responded"
    /\ outcome' =
          IF mwResponse.status = 200
          THEN [kind |-> "response", category |-> "none",
                files |-> mwResponse.body]
          ELSE [kind |-> "ServiceError",
                category |-> ErrorCategory(mwResponse.status),
                files |-> <<>>]
    /\ apiPc' = "received"
    /\ UNCHANGED <<request, dbResult, mwCsv, mwContent, mwResponse, database,
                   readOnly, mwSteps>>
    /\ UNCHANGED nonApiVars

NextApi ==
    \/ AcceptRequest \/ CheckApiKey \/ ForwardQuery \/ ConvertRecords
    \/ EncodeFile \/ ReturnFile \/ ClientReceive

\* ------------------------------------------------ search cells (Redis)
\* documents other sessions have stored, the text as words: one has the
\* word recession, one has not
OtherDocs ==
    {[content |-> <<"japan", "recession">>, vector |-> 0],
     [content |-> <<"dibaba", "record">>, vector |-> 1]}

\* doc_1, doc_2, doc_3 as the cell that makes them can leave them: it binds
\* them in this order and stops at the first embedding that raises
DocVecs ==
    UNION {{[n \in 1..NumDocs |-> IF n <= b THEN <<v[n]>> ELSE <<>>] :
              v \in [1..NumDocs -> Vectors]} : b \in 0..NumDocs}

\* text_1, text_2, text_3, as words: only text_1 has the word recession
Texts ==
    << <<"japan", "recession">>, <<"dibaba", "record">>,
       <<"google", "toolbar">> >>

\* what the server can hold under the keys doc:1 .. doc:MaxDocs when the
\* session starts: under doc:1..doc:3 what an earlier run of the notebook
\* has stored (text_n with the vector of that run), under the other keys
\* the documents of other sessions
OldDocs ==
    UNION {{d \in [K -> [content : {Texts[n] : n \in 1..NumDocs},
                         vector : Vectors]] :
               \A n \in K : IF n <= NumDocs THEN d[n].content = Texts[n]
                            ELSE d[n] \in OtherDocs} :
           K \in SUBSET (1..MaxDocs)}

\* no Query has been made
NoQuery ==
    [filter |-> [field |-> "", word |-> ""], knn |-> 0, sort_by |-> "",
     fields |-> {}, offset |-> 0, num |-> 0]

\* variant of KnnQuery: .sort_by('vector_score') is left out
KnnQuery_NoSort ==
    [filter |-> [field |-> "*", word |-> ""], knn |-> 3, sort_by |-> "",
     fields |-> {"vector_score", "content"}, offset |-> 0, num |-> 10]

\* Query('*=>[KNN 3 @vector $query_vec AS vector_score]')
\*     .sort_by('vector_score').return_fields('vector_score', 'content')
\* with the paging of a new Query (offset 0, 10 results)
KnnQuery ==
    [filter |-> [field |-> "*", word |-> ""], knn |-> 3,
     sort_by |-> "vector_score",
     fields |-> {"vector_score", "content"}, offset |-> 0, num |-> 10]

\* variant of HybridQuery: the full-text filter is replaced by *
HybridQuery_NoFilter ==
    [filter |-> [field |-> "*", word |-> ""], knn |-> 3,
     sort_by |-> "vector_score",
     fields |-> {"vector_score", "content"}, offset |-> 0, num |-> 10]

\* Query('@content:recession => [KNN 3 @vector $query_vec AS vector_score]')
\*     .sort_by('vector_score').return_fields('vector_score', 'content')
HybridQuery ==
    [filter |-> [field |-> "content", word |-> "recession"], knn |-> 3,
     sort_by |-> "vector_score",
     fields |-> {"vector_score", "content"}, offset |-> 0, num |-> 10]

\* the distance of two vectors
Distance(v, w) == IF v >= w THEN v - w ELSE w - v

HasWord(content, word) == \E i \in 1..Len(content) : content[i] = word

\* the documents the filter of the query selects: all of them for *, those
\* whose content has the word for @content:word
Matching(query, docs) ==
    {n \in DOMAIN docs :
        query.filter.field = "*" \/ HasWord(docs[n].content, query.filter.word)}

\* the sets of the knn nearest of the selected documents
Nearest(query, vec, docs) ==
    {T \in SUBSET Matching(query, docs) :
        /\ Cardinality(T) =
              (IF Cardinality(Matching(query, docs)) < query.knn
               THEN Cardinality(Matching(query, docs)) ELSE query.knn)
        /\ \A t \in T : \A u \in Matching(query, docs) \ T :
              Distance(docs[t].vector, vec) <= Distance(docs[u].vector, vec)}

\* the orders in which the documents of T can be returned
Orders(query, vec, docs, T) ==
    {f \in [1..Cardinality(T) -> T] :
        /\ \A i, j \in 1..Cardinality(T) : i # j => f[i] # f[j]
        /\ query.sort_by = "vector_score" =>
              \A i, j \in 1..Cardinality(T) :
                  i < j => Distance(docs[f[i]].vector, vec)
                             <= Distance(docs[f[j]].vector, vec)}

\* a returned document: its key and the fields the query asks for
ResultDoc(query, vec, docs, n) ==
    [id |-> n,
     fields |-> query.fields,
     vector_score |-> Distance(docs[n].vector, vec),
     content |-> docs[n].content]

\* the page of the ordered documents the query asks for
Page(query, f) ==
    SubSeq(f, query.offset + 1,
           IF Len(f) < query.offset + query.num THEN Len(f)
           ELSE query.offset + query.num)

\* the answers FT.SEARCH can give to the query
SearchResults(query, vec, docs) ==
    UNION {{[i \in 1..Len(Page(query, f)) |->
                ResultDoc(query, vec, docs, Page(query, f)[i])] :
              f \in Orders(query, vec, docs, T)} :
           T \in Nearest(query, vec, docs)}

\* the kernel of the Redis notebook is not started, the server is empty
SrIdle ==
    /\ docKey = 0
    /\ redisDocs = <<>>
    /\ q = NoQuery
    /\ query_vec = 0
    /\ results = <<>>
    /\ docVecs = <<<<>>, <<>>, <<>>>>
    /\ np = FALSE
    /\ gvDefined = FALSE

\* Redis is connected; the first cell has not run in this kernel
\* (get_vector is not defined, no doc_n is bound), or it has: get_vector is
\* defined and doc_1..doc_3 are bound as far as the cell came; no search
\* cell has run yet; the server holds what earlier sessions have left
SrInit ==
    /\ docKey = 0
    /\ redisDocs \in OldDocs
    /\ q = NoQuery
    /\ query_vec = 0
    /\ results = <<>>
    /\ gvDefined \in BOOLEAN
    /\ docVecs \in (IF gvDefined THEN DocVecs ELSE {<<<<>>, <<>>, <<>>>>})
    /\ np = FALSE

\* what the cells of the Redis notebook leave alone
redisRest == <<upVars, dispVars, evalVars, kernVars>>

\* the cell of client.json().set('doc:1', '$', doc_1) ... starts: NameError,
\* and no request, while doc_1 is not bound; else JSON.SET is sent for doc:1
StartDocsCell ==
    /\ IF docVecs[1] = <<>>
       THEN Unbound("docs") /\ UNCHANGED docKey
       ELSE /\ pc \in {"idle", "done", "error"}
            /\ cell' = "docs"
            /\ pc' = "set_wait"
            /\ err' = "none"
            /\ failedOp' = "none"
            /\ inflight' = {[op |-> "json.set", key |-> 1]}
            /\ calls' = <<[op |-> "json.set", key |-> 1]>>
            /\ docKey' = 1
    /\ ResetGv /\ ResetUp /\ ResetDisp
    /\ UNCHANGED <<redisDocs, q, query_vec, results, docVecs, np, gvDefined>>
    /\ UNCHANGED <<indexExists, evalVars, kernVars>>
    /\ UNCHANGED <<csvVars, b64Vars, imgVars, apiVars>>

\* client.json().set('doc:n', '$', doc_n) for the next document: NameError,
\* and no request, while doc_n is not bound
StoreSend ==
    /\ pc = "set"
    /\ IF docVecs[docKey] = <<>>
       THEN Raise("NameError")
       ELSE Send("json.set", docKey, "set_wait")
    /\ UNCHANGED srVars
    /\ UNCHANGED <<gvVars, indexExists, redisRest>>
    /\ UNCHANGED <<csvVars, b64Vars, imgVars, apiVars>>

\* JSON.SET puts the document (text_n with the vector get_vector has given
\* for it) under the key, in the place of the one the key had; or the call
\* raises
StoreReturn ==
    /\ pc = "set_wait"
    /\ \/ /\ redisDocs' = [j \in DOMAIN redisDocs \cup {docKey} |->
                             IF j = docKey
                             THEN [content |-> Texts[docKey],
                                   vector |-> docVecs[docKey][1]]
                             ELSE redisDocs[j]]
          /\ IF docKey = NumDocs
             THEN Answer("json.set", docKey, "done") /\ UNCHANGED docKey
             ELSE Answer("json.set", docKey, "set") /\ docKey' = docKey + 1
       \/ /\ Failure("json.set", docKey)
          /\ UNCHANGED <<docKey, redisDocs>>
    /\ UNCHANGED <<q, query_vec, results, docVecs, np, gvDefined>>
    /\ UNCHANGED <<gvVars, indexExists, redisRest>>
    /\ UNCHANGED <<csvVars, b64Vars, imgVars, apiVars>>

\* a search cell imports what it needs and calls get_vector on its text,
\* which asks for the embedding (text_4 in the semantic cell, text_5 in the
\* hybrid one)
ComposeSearch(c, n) ==
    /\ pc \in {"idle", "done", "error"}
    /\ cell' = c
    /\ pc' = "sr_embed_wait"
    /\ err' = "none"
    /\ failedOp' = "none"
    /\ inflight' = {[op |-> "embedding", key |-> n]}
    /\ calls' = <<[op |-> "embedding", key |-> n]>>

\* semantic search cell: from redis.commands.search.query import Query;
\* import numpy as np; vec = np.array(get_vector(text_4), ...): NameError,
\* and no request, while get_vector is not defined in the kernel; np is
\* imported by then
ComposeKnnSearch ==
    /\ IF gvDefined THEN ComposeSearch("knn", 4) ELSE Unbound("knn")
    /\ np' = TRUE
    /\ ResetGv /\ ResetUp /\ ResetDisp
    /\ UNCHANGED <<docKey, redisDocs, q, query_vec, results, docVecs,
                   gvDefined>>
    /\ UNCHANGED <<indexExists, evalVars, kernVars>>
    /\ UNCHANGED <<csvVars, b64Vars, imgVars, apiVars>>

\* hybrid search cell: vec = np.array(get_vector(text_5), ...); the cell
\* imports nothing, np is looked up first and get_vector next: NameError,
\* and no request, when the semantic search cell has not run in this
\* kernel or get_vector is not defined in it
ComposeHybridSearch ==
    /\ IF np /\ gvDefined THEN ComposeSearch("hybrid", 5)
       ELSE Unbound("hybrid")
    /\ ResetGv /\ ResetUp /\ ResetDisp
    /\ UNCHANGED srVars
    /\ UNCHANGED <<indexExists, evalVars, kernVars>>
    /\ UNCHANGED <<csvVars, b64Vars, imgVars, apiVars>>

\* the embedding v arrives: vec = np.array(...).tobytes(); q = Query(...);
\* params = {"query_vec": vec}; or get_vector raises
EmbeddingReturn(v) ==
    /\ pc = "sr_embed_wait"
    /\ \/ /\ Answer("embedding", IF cell = "knn" THEN 4 ELSE 5, "sr_search")
          /\ query_vec' = v
          /\ q' = IF cell = "knn" THEN KnnQuery ELSE HybridQuery
       \/ /\ Failure("embedding", IF cell = "knn" THEN 4 ELSE 5)
          /\ UNCHANGED <<q, query_vec>>
    /\ UNCHANGED <<docKey, redisDocs, results, docVecs, np, gvDefined>>
    /\ UNCHANGED <<gvVars, indexExists, redisRest>>
    /\ UNCHANGED <<csvVars, b64Vars, imgVars, apiVars>>

\* results = client.ft('idx').search(q, query_params=params)
SearchSend ==
    /\ pc = "sr_search"
    /\ Send("ft.search", 0, "sr_search_wait")
    /\ UNCHANGED srVars
    /\ UNCHANGED <<gvVars, indexExists, redisRest>>
    /\ UNCHANGED <<csvVars, b64Vars, imgVars, apiVars>>

\* the answer of Redis arrives; or the call raises: always when there is no
\* index 'idx' (no such index), and on a connection failure
SearchReturn ==
    /\ pc = "sr_search_wait"
    /\ \/ /\ indexExists
          /\ results' \in SearchResults(q, query_vec, redisDocs)
          /\ Answer("ft.search", 0, "sr_print")
       \/ /\ Failure("ft.search", 0)
          /\ UNCHANGED results
    /\ UNCHANGED <<docKey, redisDocs, q, query_vec, docVecs, np, gvDefined>>
    /\ UNCHANGED <<gvVars, indexExists, redisRest>>
    /\ UNCHANGED <<csvVars, b64Vars, imgVars, apiVars>>

\* for doc in results.docs: print(f"distance:... content:...")
PrintResults ==
    /\ pc = "sr_print"
    /\ Goto("done")
    /\ UNCHANGED srVars
    /\ UNCHANGED <<gvVars, indexExists, redisRest>>
    /\ UNCHANGED <<csvVars, b64Vars, imgVars, apiVars>>

\* the cells that store the documents and search, run in any order and any
\* number of times, one at a time; the embeddings the service returns are
\* drawn from V
SearchCells(V) ==
    \/ StartDocsCell \/ StoreSend \/ StoreReturn
    \/ ComposeKnnSearch \/ ComposeHybridSearch
    \/ \E v \in V : EmbeddingReturn(v)
    \/ SearchSend \/ SearchReturn \/ PrintResults

NextSr == SearchCells(Vectors)

\* ------------------------------------------------------- specifications
InitB64 == B64Init /\ CsvIdle /\ NbIdle /\ ImgIdle /\ ApiIdle /\ SrIdle

SpecB64 == InitB64 /\ [][NextB64]_vars

InitCsv == CsvInit /\ B64Idle /\ NbIdle /\ ImgIdle /\ ApiIdle /\ SrIdle

SpecCsv == InitCsv /\ [][NextCsv]_vars

\* the index 'idx' has been created
SrIndexed ==
    /\ cell = "none"
    /\ pc = "idle"
    /\ indexExists = TRUE
    /\ NbFresh

InitSr == SrInit /\ SrIndexed /\ CsvIdle /\ B64Idle /\ ImgIdle /\ ApiIdle

SpecSr == InitSr /\ [][NextSr]_vars

\* the kernel of the notebook of the service cells is not started
NbOff ==
    /\ cell = "none"
    /\ pc = "off"
    /\ indexExists = FALSE
    /\ NbFresh

\* the files of the sessions of the presenter: a row of july and a row of
\* june, each with a text and with or without an image
PresentFiles ==
    {<<[id |-> 1, month |-> "july", image_path |-> p[1], text |-> <<"t">>,
        full_sentiment |-> <<"NaN">>],
       [id |-> 2, month |-> "june", image_path |-> p[2], text |-> <<"t">>,
        full_sentiment |-> <<"NaN">>]>> :
        p \in [1..2 -> {<<"NaN">>, <<"img">>}]}

\* the answers of the searches of these sessions: no second output item,
\* or annotations that name files of the two rows
PresentResponses ==
    {r \in Responses :
        /\ r.kind # "no_content"
        /\ r.files \subseteq {<<"context", 1, "july", ".txt">>,
                              <<"context", 2, "june", ".txt">>}}

\* the two stores have been created in this kernel
StoresCreated ==
    /\ cell = "none"
    /\ pc = "idle"
    /\ indexExists = FALSE
    /\ NbClean
    /\ vs = <<"created", "created">>

\* the two presenters: the JSON-to-CSV cell of one notebook, or
\* display_retrieved_images of the other with the cells that bind what
\* it reads (df, the response) and the cells that create and delete the
\* stores the searches name; every cell is run at any time and any number
\* of times, one at a time
NextPresent ==
    \/ LoadJson \/ OpenCsv \/ WriteHeader \/ WriteRow \/ CloseCsv
    \/ LoadJsonAgain
    \/ \E d \in PresentFiles : StartSentimentCell(d)
    \/ SentimentSend \/ SentimentReturn \/ SentimentFill
    \/ StartCreateStores
    \/ \E t \in 1..2 : CreateStoreSend(t)
    \/ \E t \in 1..2 : CreateStoreReturn(t)
    \/ \E t \in 1..2 : StartSearchCell(t)
    \/ SearchCellSend
    \/ \E r \in PresentResponses : SearchCellReturn(r)
    \/ StartDeleteStores
    \/ \E t \in 1..2 : DeleteStoreSend(t)
    \/ \E t \in 1..2 : DeleteStoreReturn(t)
    \/ StartDisplay \/ StartDisplayAgain
    \/ InspectResponse \/ DisplayFile \/ DisplayReturn
    \/ PrintDisplayed

InitPresent ==
    /\ \/ CsvInit /\ NbOff
       \/ CsvIdle /\ NbIdle
    /\ B64Idle /\ ImgIdle /\ ApiIdle /\ SrIdle

SpecPresent == InitPresent /\ [][NextPresent]_vars

\* the embeddings of the sessions in which every cell of the notebook runs
IdxVectors == {0}

\* the first cell has not run in this kernel, or it has, as far as it
\* came; the server holds the documents an earlier run of the notebook has
\* left
IdxInit ==
    /\ docKey = 0
    /\ redisDocs \in {d \in OldDocs :
                        /\ DOMAIN d \subseteq 1..NumDocs
                        /\ \A n \in DOMAIN d : d[n].vector \in IdxVectors}
    /\ q = NoQuery
    /\ query_vec = 0
    /\ results = <<>>
    /\ gvDefined \in BOOLEAN
    /\ docVecs \in {v \in DocVecs :
                      /\ ~gvDefined => v = <<<<>>, <<>>, <<>>>>
                      /\ \A n \in 1..NumDocs :
                            v[n] # <<>> => v[n][1] \in IdxVectors}
    /\ np = FALSE

\* the Redis notebook: the cell of get_vector and doc_1..doc_3, the index
\* creation cell, the cell that stores the documents and the two search
\* cells, run in any order and any number of times, one at a time
NextIdx ==
    \/ StartGetVector \/ GvReplace \/ GvEmbedSend
    \/ \E v \in IdxVectors : GvEmbedReturn(v)
    \/ StartIndexCell \/ DropIndexSend \/ DropIndexReturn
    \/ CreateIndexSend \/ CreateIndexReturn
    \/ SearchCells(IdxVectors)

InitIdx == NbInit /\ IdxInit /\ CsvIdle /\ B64Idle /\ ImgIdle /\ ApiIdle

SpecIdx == InitIdx /\ [][NextIdx]_vars

InitImg == ImgInit /\ CsvIdle /\ B64Idle /\ NbIdle /\ ApiIdle /\ SrIdle

SpecImg == InitImg /\ [][NextImg]_vars

InitApi == ApiInit /\ CsvIdle /\ B64Idle /\ NbIdle /\ ImgIdle /\ SrIdle

SpecApi == InitApi /\ [][NextApi]_vars

\* the service holds fewer than MaxFiles files in the two stores
UploadRoom == Len(store[1]) + Len(store[2]) < MaxFiles

\* the functions of the two notebooks, each called on its own with any
\* argument, at any time and any number of times: get_vector,
\* analyze_image_sentiment and upload_files_to_vector_store, this one
\* while the stores have room
NextFn ==
    \/ \E t \in GvInputs : get_vector(t)
    \/ GvReplace \/ GvEmbedSend
    \/ \E v \in Vectors : GvEmbedReturn(v)
    \/ StartAnalyze \/ AnalyzeEncode \/ AnalyzeSend \/ AnalyzeReturn
    \/ /\ UploadRoom
       /\ \E t \in 1..2, d \in DataFrames, m \in BOOLEAN :
             upload_files_to_vector_store(t, d, m)
    \/ UploadSend \/ UploadReturn \/ UploadLoopEnd
    \/ UpdateSend \/ UpdateReturn \/ UpdateLoopEnd

\* the stores are created; the def of get_vector has run or not, and no
\* other cell of the Redis notebook has
InitFn ==
    /\ StoresCreated /\ kernel_df = <<>>
    /\ docKey = 0
    /\ redisDocs = <<>>
    /\ q = NoQuery
    /\ query_vec = 0
    /\ results = <<>>
    /\ docVecs = <<<<>>, <<>>, <<>>>>
    /\ np = FALSE
    /\ gvDefined \in BOOLEAN
    /\ CsvIdle /\ B64Idle /\ ImgIdle /\ ApiIdle

SpecFn == InitFn /\ [][NextFn]_vars

\* the DataFrames of the sessions of the uploads: they have the column
\* month and at most two rows, of july, labelled 0 and 1 in any order
UpFrames ==
    {d \in DataFrames :
        /\ Len(d) <= 2
        /\ \A i \in 1..Len(d) : d[i].month = "july" /\ d[i].label <= 1}

\* the global df of these sessions, when the full_sentiment cell has run: a
\* row with a text and a row without, no image
UpSession ==
    <<[id |-> 1, month |-> "july", image_path |-> <<"NaN">>,
       text |-> <<"t">>, full_sentiment |-> <<"t">>],
      [id |-> 2, month |-> "july", image_path |-> <<"NaN">>,
       text |-> <<"NaN">>, full_sentiment |-> <<"NaN">>]>>

\* upload_files_to_vector_store, called on its own with any argument or
\* twice by the upload cell, at any time and any number of times while the
\* stores have room
NextUp ==
    \/ /\ UploadRoom
       /\ \E t \in 1..2, d \in UpFrames :
             upload_files_to_vector_store(t, d, TRUE)
    \/ UploadRoom /\ StartUpload
    \/ UploadSend \/ UploadReturn \/ UploadLoopEnd
    \/ UpdateSend \/ UpdateReturn \/ UpdateLoopEnd

InitUp ==
    /\ StoresCreated /\ kernel_df \in {<<>>, UpSession}
    /\ CsvIdle /\ B64Idle /\ ImgIdle /\ ApiIdle /\ SrIdle

SpecUp == InitUp /\ [][NextUp]_vars

\* the full_sentiment cell, run on any file, at any time and any number of
\* times
NextSent ==
    \/ \E d \in SentFrames : StartSentimentCell(d)
    \/ SentimentSend \/ SentimentReturn \/ SentimentFill

InitSent == NbIdle /\ CsvIdle /\ B64Idle /\ ImgIdle /\ ApiIdle /\ SrIdle

SpecSent == InitSent /\ [][NextSent]_vars

\* the global df of the sessions of the evaluation: not bound, or the two
\* rows the full_sentiment cell has left, or a row of a file without the
\* column full_sentiment
EvalFrames ==
    {<<>>, UpSession,
     <<[id |-> 1, month |-> "july", image_path |-> <<"NaN">>,
        text |-> <<"t">>, full_sentiment |-> <<"absent">>]>>}

\* the evaluation cells, run in any order and any number of times while
\* the service has fewer than MaxEvals evaluations and fewer than MaxRuns
\* runs; the service works on the runs at its own pace
NextEval ==
    \/ eval_id < MaxEvals /\ StartEvalCreate
    \/ EvalCreateSend \/ EvalCreateReturn
    \/ Len(runStatus) < MaxRuns /\ StartEvalRuns
    \/ StartEvalItems
    \/ \E r \in 1..2 : CreateRunSend(r)
    \/ \E r \in 1..2 : CreateRunReturn(r)
    \/ \E r \in 1..2 : RetrieveSend(r)
    \/ \E r \in 1..2 : RetrieveReturn(r)
    \/ \E r \in 1..2 : ListSend(r)
    \/ \E r \in 1..2 : ListReturn(r)
    \/ \E id \in 1..Len(runStatus) : EvalRunProgress(id)

InitEval ==
    /\ cell = "none"
    /\ pc = "idle"
    /\ indexExists = FALSE
    /\ NbClean
    /\ vs = <<"unbound", "unbound">>
    /\ kernel_df \in EvalFrames
    /\ CsvIdle /\ B64Idle /\ ImgIdle /\ ApiIdle /\ SrIdle

SpecEval == InitEval /\ [][NextEval]_vars

\* every kind of request of the two notebooks: get_vector,
\* analyze_image_sentiment, the review cell, the image cell,
\* upload_files_to_vector_store (on the column text of the two rows of
\* UpSession) while the stores have room and the two search cells of the
\* Redis notebook; each is run at any time and any number of times
NextReq ==
    \/ \E t \in GvInputs : get_vector(t)
    \/ GvReplace \/ GvEmbedSend
    \/ \E v \in IdxVectors : GvEmbedReturn(v)
    \/ StartAnalyze \/ AnalyzeEncode \/ AnalyzeSend \/ AnalyzeReturn
    \/ StartReview \/ ReviewSend \/ ReviewReturn
    \/ StartImageCell \/ CheckCache \/ GenerateSend \/ GenerateReturn
    \/ DisplayImage
    \/ /\ UploadRoom
       /\ \E t \in 1..2 :
             upload_files_to_vector_store(t, View(UpSession, "text"), TRUE)
    \/ UploadSend \/ UploadReturn \/ UploadLoopEnd
    \/ UpdateSend \/ UpdateReturn \/ UpdateLoopEnd
    \/ ComposeKnnSearch \/ ComposeHybridSearch
    \/ \E v \in IdxVectors : EmbeddingReturn(v)
    \/ SearchSend \/ SearchReturn \/ PrintResults

\* the stores and the index have been created, the documents are stored
\* and doc_1..doc_3 are bound
InitReq ==
    /\ cell = "none"
    /\ pc = "idle"
    /\ indexExists = TRUE
    /\ NbClean
    /\ vs = <<"created", "created">>
    /\ kernel_df = <<>>
    /\ docKey = 0
    /\ redisDocs = [n \in 1..NumDocs |->
                       [content |-> Texts[n], vector |-> IF n = 1 THEN 0 ELSE 1]]
    /\ q = NoQuery
    /\ query_vec = 0
    /\ results = <<>>
    /\ docVecs = [n \in 1..NumDocs |-> <<0>>]
    /\ np = FALSE
    /\ gvDefined = TRUE
    /\ CsvIdle /\ B64Idle /\ ImgIdle /\ ApiIdle

SpecReq == InitReq /\ [][NextReq]_vars

\* ------------------------------------- properties of the calling cells
\* C4: a request whose required field is missing or malformed makes the
\* composer fail before any network call: when upload_files_to_vector_store
\* stops on the missing 'month' field (KeyError), or get_vector on a
\* non-text input (AttributeError), no external call has been issued.
C4_FailsBeforeAnyCall ==
    (pc = "error" /\ err \in {"KeyError", "AttributeError"}) => calls = <<>>

\* C5: any failure of an external call halts the current cell at once: the
\* error is not swallowed and no later statement of the cell runs; this
\* includes the index drop call of the index-creation cell.
C5_EveryFailureHalts ==
    failedOp # "none" => (pc = "error" /\ err = "ServiceError")

\* C6: no external call is retried: within one execution of a cell every
\* composed request (embedding, image generation, response creation, file
\* upload, attribute update, search) is issued at most once, and the request
\* that has failed is the last one the cell has issued.
C6_NoRetry ==
    /\ \A i, j \in 1..Len(calls) : i # j => calls[i] # calls[j]
    /\ failedOp # "none" => calls[Len(calls)].op = failedOp

C6_Witness ==
    /\ failedOp = "update"
    /\ pc = "error"
    /\ Len(calls) = 4

\* C9: execution is synchronous: at most one external request is in flight
\* and no statement consumes a result before the external operation that
\* produces it has finished; in particular the output items of a run are
\* listed only once the run has finished.
C9_SynchronousOperations ==
    /\ Cardinality(inflight) <= 1
    /\ \A r \in 1..2 : items[r] # "none" => items[r] = "complete"

\* ------------------------------------------- properties of the image cache
\* C8: once the image of a prompt has been generated and cached, every later
\* execution of the cell with that prompt finds the cached file: an
\* image-generation request is issued only when no cached file for the
\* prompt exists.
C8_GenerateOnlyWithoutCachedFile ==
    imgPc = "generate_wait" => ~(\E f \in cacheFiles : f.image = prompt)

\* ------------------------------------------- properties of the endpoint
\* C7: a non-success status surfaces as an error of a distinguishable
\* category: a malformed query (400) is a client error, a missing or invalid
\* credential (401) is an auth error, the two never give the same outcome,
\* and neither gives a success response carrying a file envelope.
C7_ErrorCategories ==
    apiPc = "received" =>
        /\ request.key # "valid" =>
              outcome = [kind |-> "ServiceError", category |-> "auth_error",
                         files |-> <<>>]
        /\ (request.key = "valid" /\ request.q = "malformed") =>
              outcome = [kind |-> "ServiceError", category |-> "client_error",
                         files |-> <<>>]
        /\ mwResponse.status # 200 =>
              (outcome.kind = "ServiceError" /\ mwResponse.body = <<>>)
        /\ outcome.kind = "response" =>
              (request = [key |-> "valid", q |-> "select"]
               /\ Len(outcome.files) = 1)

C7_Witness ==
    /\ apiPc = "received"
    /\ request = [key |-> "missing", q |-> "malformed"]
    /\ mwResponse.status = 401
    /\ outcome.category = "auth_error"

\* C11: every successful response of the middleware carries an
\* openaiFileResponse array whose every element has exactly a name, a MIME
\* type and a content, and decoding the content from base64 gives the bytes
\* of the CSV made from the records.
C11_FileEnvelope ==
    mwResponse.status = 200 =>
        /\ Len(mwResponse.body) >= 1
        /\ \A i \in 1..Len(mwResponse.body) :
              /\ DOMAIN mwResponse.body[i] = {"name", "mime_type", "content"}
              /\ b64decode(mwResponse.body[i].content)
                    = [ok |-> TRUE, bytes |-> Utf8Encode(ToCsv(dbResult))]

C11_Witness ==
    /\ apiPc = "received"
    /\ mwResponse.status = 200
    /\ outcome.kind = "response"
    /\ Len(mwCsv) % 3 = 1
    /\ \E j \in 1..Len(mwCsv) : mwCsv[j] = "\""

\* the mapping display_retrieved_images returns for a response, as a
\* function of the response and of the dict IMAGE_ID_MAPPING of the kernel
DisplayedFor(resp, map) ==
    IF resp.kind # "ok" THEN {}
    ELSE {<<p[1], <<".local_cache", "images", p[2]>> >> :
            p \in {m \in map : m[1] \in resp.files}}

\* C12: the presenters are deterministic: two runs fed the same Response
\* input give the same artifact. A run of the JSON-to-CSV cell on the
\* records of the run before leaves the bytes that run left in output.csv,
\* and a call of display_retrieved_images on the response of the call
\* before returns the mapping that call returned.
C12_DeterministicArtifacts ==
    /\ []((csvPc = "done" /\ csvPrev.again) => csvFile = csvPrev.file)
    /\ [][(/\ pc' = "dp_print"
           /\ pc # "dp_print"
           /\ displayed.bound
           /\ displayed.response = response) =>
              displayed'.map = displayed.map]_vars

\* C12, amended: display_retrieved_images reads the global dict
\* IMAGE_ID_MAPPING besides its argument: a call on the response of the
\* call before returns the mapping that call returned when the dict is
\* the one that call has read, in whatever order the set of retrieved
\* files is visited; the CSV bytes are those of the run before on the same
\* records.
C12_DeterministicGivenMapping ==
    /\ []((csvPc = "done" /\ csvPrev.again) => csvFile = csvPrev.file)
    /\ [][(/\ pc' = "dp_print"
           /\ pc # "dp_print"
           /\ displayed.bound
           /\ displayed.response = response
           /\ displayed.mapping = IMAGE_ID_MAPPING.map) =>
              displayed'.map = displayed.map]_vars

C12_Witness ==
    /\ cell = "display_again"
    /\ pc = "done"
    /\ displayed.response = response
    /\ displayed.mapping = IMAGE_ID_MAPPING.map
    /\ Cardinality(response.files) = 2
    /\ Cardinality(displayed.map) = 2

\* C13: with the middleware holding read-only permissions on the database,
\* no request handled by the databaseQuery endpoint changes the content of
\* the database, whatever SQL it carries.
C13_ReadOnlyDatabase == [][readOnly => database' = database]_vars

C13_Witness ==
    /\ readOnly
    /\ apiPc = "received"
    /\ request = [key |-> "valid", q |-> "delete"]
    /\ mwSteps = <<"accept", "authenticate", "forward">>
    /\ Len(database) = 2

\* the steps of the workflow, in the order of the design
WorkflowOrder ==
    <<"accept", "authenticate", "forward", "convert", "encode", "return">>

\* C17: the steps of the middleware for a request come in the order accept,
\* forward, convert to CSV, encode in base64, return; a file is returned
\* only after all of them, and never for a query that was not forwarded.
C17_WorkflowOrdered ==
    /\ Len(mwSteps) <= Len(WorkflowOrder)
    /\ mwSteps = SubSeq(WorkflowOrder, 1, Len(mwSteps))
    /\ mwResponse.status = 200 => mwSteps = WorkflowOrder
    /\ mwResponse.body # <<>> =>
          (\E i \in 1..Len(mwSteps) : mwSteps[i] = "forward")

C17_Witness ==
    /\ apiPc = "received"
    /\ mwResponse.status = 200
    /\ mwSteps = WorkflowOrder
    /\ Len(dbResult) = 2
    /\ Len(mwContent) > 0

\* C14: the KNN query with result count 3 returns at most 3 records, each
\* with the fields vector_score and content, in the order of non-decreasing
\* vector_score.
C14_KnnResultsOrdered ==
    (cell = "knn" /\ pc \in {"sr_print", "done"}) =>
        /\ Len(results) <= 3
        /\ \A i \in 1..Len(results) :
              results[i].fields = {"vector_score", "content"}
        /\ \A i, j \in 1..Len(results) :
              i < j => results[i].vector_score <= results[j].vector_score

C14_Witness ==
    /\ cell = "knn"
    /\ pc = "done"
    /\ DOMAIN redisDocs = 1..4
    /\ Len(results) = 3
    /\ results[1].vector_score < results[3].vector_score
    /\ results[1].id > results[3].id

\* C15: in the hybrid search the filter comes before the ranking: every
\* returned record has the word recession in its content, and a stored
\* document without it is never returned, however near its vector is.
C15_FilterBeforeRanking ==
    (cell = "hybrid" /\ pc \in {"sr_print", "done"}) =>
        /\ \A i \in 1..Len(results) :
              /\ HasWord(results[i].content, "recession")
              /\ HasWord(redisDocs[results[i].id].content, "recession")
        /\ \A n \in DOMAIN redisDocs :
              ~HasWord(redisDocs[n].content, "recession") =>
                  \A i \in 1..Len(results) : results[i].id # n

C15_Witness ==
    /\ cell = "hybrid"
    /\ pc = "done"
    /\ Len(results) = 1
    /\ results[1].vector_score = 1
    /\ \E n \in DOMAIN redisDocs :
          /\ ~HasWord(redisDocs[n].content, "recession")
          /\ redisDocs[n].vector = query_vec

C20_MonthOnOwnFile ==
    (cell = "upload" /\ pc \in {"up_update", "up_update_wait", "done"}) =>
        /\ \A n \in 1..Len(df) :
              (pc = "done" \/ n < k) =>
                  store[vector_store_id][file_ids[n]].attributes = df[n].month
        /\ \A n \in 1..Len(df) :
              store[vector_store_id][file_ids[n]].attributes
                  \in {"none", df[n].month}

\* the requests the cell has issued before the running call of
\* upload_files_to_vector_store: those of its first call, an upload and
\* an update for each row
Prior == IF upCall = 2 THEN 2 * Len(df) ELSE 0

\* C21: upload_files_to_vector_store uploads exactly one file per row of the
\* DataFrame, in row order, and every upload comes before every attribute
\* update; a row whose chosen column is missing is uploaded with the text
\* 'No information available.' and is not skipped, so that once the first
\* loop is over the call has uploaded as many files as the DataFrame has
\* rows: they are the last files of the vector store, whatever it held
\* before the call.
C21_OneFilePerRow ==
    (cell = "upload" /\ vector_store_id # 0) =>
        /\ Len(file_ids) <= Len(store[vector_store_id])
        /\ \A i \in 1..Len(file_ids) :
              /\ i <= Len(df)
              /\ file_ids[i] =
                    Len(store[vector_store_id]) - Len(file_ids) + i
              /\ store[vector_store_id][file_ids[i]].name =
                    FileName(df[i], hasMonth)
              /\ store[vector_store_id][file_ids[i]].content =
                    IF df[i].val = <<"NaN">>
                    THEN <<"No information available.">>
                    ELSE df[i].val
        /\ pc \in {"up_upload", "up_upload_wait"} => Len(file_ids) = k - 1
        /\ (pc \in {"up_update", "up_update_wait", "done"}
            \/ failedOp = "update" \/ err = "IndexError")
              => Len(file_ids) = Len(df)
        /\ \A i \in 1..(Len(calls) - Prior) :
              IF i <= Len(df)
              THEN calls[Prior + i] =
                      [op |-> "upload", key |-> <<vector_store_id, i>>]
              ELSE calls[Prior + i] =
                      [op |-> "update",
                       key |-> <<vector_store_id, i - Len(df)>>]

C21_Witness ==
    /\ cell = "upload"
    /\ pc = "done"
    /\ Len(df) = 2
    /\ df[1].val = <<"NaN">>
    /\ df[2].val = <<"t">>
    /\ Len(store[vector_store_id]) = 3
    /\ file_ids = <<2, 3>>
    /\ store[vector_store_id][2].content = <<"No information available.">>
    /\ Len(calls) = 4

\* C23: when the full_sentiment cell has completed, for every row: with an
\* image and a text, full_sentiment is the text, a space and the sentiment
\* of the image; with an image and no text it is the sentiment alone;
\* without an image it equals the text of the row. The image model has been
\* called exactly once for each row that has an image and never for a row
\* without one.
C23_FullSentiment ==
    (cell = "full_sentiment" /\ pc = "done") =>
        /\ \A i \in 1..Len(kernel_df) :
              /\ (kernel_df[i].image_path # <<"NaN">>
                  /\ kernel_df[i].text # <<"NaN">>) =>
                    \E s \in Sentiments :
                        kernel_df[i].full_sentiment =
                            kernel_df[i].text \o <<" ">> \o s
              /\ (kernel_df[i].image_path # <<"NaN">>
                  /\ kernel_df[i].text = <<"NaN">>) =>
                    kernel_df[i].full_sentiment \in Sentiments
              /\ kernel_df[i].image_path = <<"NaN">> =>
                    kernel_df[i].full_sentiment = kernel_df[i].text
              /\ Cardinality({j \in 1..Len(calls) :
                                 calls[j] = [op |-> "responses", key |-> i]})
                    = IF kernel_df[i].image_path # <<"NaN">> THEN 1 ELSE 0
        /\ \A j \in 1..Len(calls) :
              /\ calls[j].op = "responses"
              /\ calls[j].key \in 1..Len(kernel_df)

\* C23, amended: as above, but a row without an image keeps the
\* full_sentiment the file gives for it, and equals the text of the row
\* only when the file gives none: fillna fills the missing values and no
\* step of the cell changes a value the file gives for such a row.
C23_FullSentimentUnlessGiven ==
    /\ []((cell = "full_sentiment" /\ pc = "done") =>
            /\ \A i \in 1..Len(kernel_df) :
                  /\ (kernel_df[i].image_path # <<"NaN">>
                      /\ kernel_df[i].text # <<"NaN">>) =>
                        \E s \in Sentiments :
                            kernel_df[i].full_sentiment =
                                kernel_df[i].text \o <<" ">> \o s
                  /\ (kernel_df[i].image_path # <<"NaN">>
                      /\ kernel_df[i].text = <<"NaN">>) =>
                        kernel_df[i].full_sentiment \in Sentiments
                  /\ kernel_df[i].image_path = <<"NaN">> =>
                        kernel_df[i].full_sentiment
                            \in {kernel_df[i].text, <<"old">>}
                  /\ Cardinality({j \in 1..Len(calls) :
                                     calls[j] =
                                        [op |-> "responses", key |-> i]})
                        = IF kernel_df[i].image_path # <<"NaN">>
                          THEN 1 ELSE 0
            /\ \A j \in 1..Len(calls) :
                  /\ calls[j].op = "responses"
                  /\ calls[j].key \in 1..Len(kernel_df))
    /\ [][(cell = "full_sentiment" /\ pc \in {"fs_loop", "fs_wait"}) =>
            \A i \in 1..Len(kernel_df) :
                /\ kernel_df[i].image_path = <<"NaN">> =>
                      kernel_df'[i].full_sentiment =
                          IF kernel_df[i].full_sentiment = <<"old">>
                          THEN <<"old">>
                          ELSE IF pc' = "done" THEN kernel_df[i].text
                          ELSE kernel_df'[i].full_sentiment]_vars

C23_Witness ==
    /\ cell = "full_sentiment"
    /\ pc = "done"
    /\ Len(kernel_df) = 2
    /\ kernel_df[1].image_path = <<"img">>
    /\ kernel_df[1].text = <<"t">>
    /\ kernel_df[1].full_sentiment = <<"t", " ", "s">>
    /\ kernel_df[2].image_path = <<"NaN">>
    /\ kernel_df[2].text = <<"t">>
    /\ kernel_df[2].full_sentiment = <<"old">>
    /\ Len(calls) = 1

C2_Base64Lossless ==
    /\ b64Pc = "encoded" => b64decode(encoded).ok
    /\ b64Pc = "decoded" => decoded = [ok |-> TRUE, bytes |-> artifact]

C2_Witness ==
    /\ b64Pc = "decoded"
    /\ Len(artifact) = 2
    /\ artifact[1] = 255
    /\ decoded.bytes = artifact

\* ------------------------------------------------- properties of the cell
\* the table read back from output.csv
Table == ReadCsv(csvFile)

StrAll(xs) == [i \in 1..Len(xs) |-> Str(xs[i])]

\* every record has fields and no field is empty
NonEmptyFields(d) ==
    \A i \in 1..Len(d) :
        /\ Len(d[i]) >= 1
        /\ \A j \in 1..Len(d[i]) : Str(d[i][j].v) # <<>>

\* the row read under header hdr names the same fields with the same values
\* as the record rec
SameRecord(rec, hdr, row) ==
    /\ Len(hdr) = Len(rec)
    /\ Len(row) = Len(rec)
    /\ \A j \in 1..Len(rec) :
          \E c \in 1..Len(hdr) : hdr[c] = rec[j].k /\ row[c] = Str(rec[j].v)

\* C1: for every sequence of records with non-empty fields, writing the
\* table (header from the record keys, one row per record) and reading it
\* back yields, for every record, the same field names and the same values
\* (values compared by their text, a CSV table carries no types).
C1_RoundTrip ==
    (csvPc = "done" /\ NonEmptyFields(data)) =>
        /\ Len(Table) = Len(data) + 1
        /\ \A i \in 1..Len(data) : SameRecord(data[i], Table[1], Table[i + 1])

\* C3: N records give exactly N data rows and the i-th data row is made of
\* the values of the i-th record; while the loop runs, the rows written so
\* far are those of the records already visited, in input order.
C3_RowsInInputOrder ==
    (csvPc \in {"rows", "done"}) =>
        /\ Len(Table) = rowIdx
        /\ csvPc = "done" => Len(Table) = Len(data) + 1
        /\ \A i \in 1..(rowIdx - 1) : Table[i + 1] = StrAll(values(data[i]))

C3_Witness ==
    /\ csvPc = "done"
    /\ Len(data) >= 2
    /\ values(data[1]) # values(data[2])
    /\ Len(Table) = Len(data) + 1

\* C10: the columns of the header row are the keys of the first record, in
\* that record's key order.
C10_HeaderIsFirstRecordKeys ==
    (csvPc \in {"rows", "done"}) => Table[1] = keys(data[1])

C10_Witness ==
    /\ csvPc = "done"
    /\ Len(data) >= 2
    /\ keys(data[1]) = <<(<<"b">>), (<<"a">>)>>
    /\ keys(data[2]) # keys(data[1])
    /\ Table[1] = keys(data[1])

\* the value of the field named key in the record, as text; <<"?">> when
\* the record has no such field
FieldText(rec, key) ==
    IF \E j \in 1..Len(rec) : rec[j].k = key
    THEN Str(rec[CHOOSE j \in 1..Len(rec) : rec[j].k = key].v)
    ELSE <<"?">>

\* C18: for every sequence of records (with non-empty fields), whatever the
\* key order or key set of each record, the cell of row r under the header
\* column c holds the value record r has for the field named c.
C18_CellsUnderTheirHeader ==
    (csvPc = "done" /\ NonEmptyFields(data)) =>
        \A r \in 1..Len(data) :
            /\ Len(Table[r + 1]) = Len(Table[1])
            /\ \A c \in 1..Len(Table[1]) :
                  /\ \E j \in 1..Len(data[r]) : data[r][j].k = Table[1][c]
                  /\ Table[r + 1][c] = FieldText(data[r], Table[1][c])

\* C19: with an empty record sequence the conversion raises while taking
\* the header from the first record, after the file has been opened for
\* writing: no header and no row is written and the file is left empty,
\* whatever it held before.
C19_EmptyInputLeavesEmptyFile ==
    /\ csvPc = "error" => (data = <<>> /\ csvFile = <<>> /\ rowIdx = 0)
    /\ (data = <<>> /\ csvPc \notin {"load", "open"}) =>
          (csvPc \in {"header", "error"} /\ csvFile = <<>>)

C19_Witness ==
    /\ csvPc = "error"
    /\ data = <<>>
    /\ csvFile = <<>>

====
